---- MODULE Spec2Model ----
(***************************************************************************)
(* A model of the icon loader of rust-icon-loader: the loader state        *)
(* machine of src/src/loader.rs, chain building and candidate collection   *)
(* of src/src/icon/icon_theme.rs, and the size matcher of src/src/icon.rs. *)
(*                                                                         *)
(* Option<T> is modelled as a sequence of length at most one: None is <<>> *)
(* and Some(x) is <<x>>.  Strings are TLA+ strings; an icon name is the    *)
(* sequence of its dot-separated segments, so that Path::with_extension    *)
(* can be modelled by what it does.  A path is a tuple of components.      *)
(***************************************************************************)
EXTENDS Integers, Sequences, FiniteSets, TLC

VARIABLES
    world,                \* the on-disk data (parameters of a file system), never written
    theme_name,           \* IconLoader.theme_name
    fallback_theme_name,  \* IconLoader.fallback_theme_name
    theme_cache,          \* IconLoader.theme_cache : name -> IconThemes
    icon_cache,           \* IconLoader.icon_cache  : icon name -> Option<Icon>
    search_paths,         \* IconLoader.search_paths
    theme_name_provider,  \* IconLoader.theme_name_provider
    pc,                   \* position of the load_icon call in progress
    icon_name,            \* load_icon: its argument
    searched_themes,      \* load_icon: the Vec handed to every find_icon call
    stack,                \* find_icon: the frames of the recursion, innermost last
    found,                \* load_icon: the Option<Icon> about to be cached and returned
    overflow_checks,      \* whether the build panics on integer overflow (debug) or wraps
    icon,                 \* size matcher: the Icon the selection runs on
    sel,                  \* size matcher: the last selection and what it returned
    threads,              \* the threads that share the loader: each one's theme_exists call
    probed,               \* IconTheme::entries: its last call and the paths it probed
    parsed                \* IconDir::new: the last section parsed and what came of it

vars == <<world, theme_name, fallback_theme_name, theme_cache, icon_cache,
          search_paths, theme_name_provider, pc, icon_name, searched_themes,
          stack, found, overflow_checks, icon, sel, threads, probed, parsed>>

loader_vars == <<theme_name, fallback_theme_name, theme_cache, icon_cache,
                 search_paths, theme_name_provider, pc, icon_name,
                 searched_themes, stack, found>>

size_vars == <<overflow_checks, icon, sel>>

file_vars == <<probed, parsed>>

None == <<>>

Some(x) == <<x>>

Unwrap(o) == o[1]

\* Vec::contains
\* F applied to the value of x, which is evaluated once.
With(x, F(_)) == CHOOSE r \in {F(v) : v \in {x}} : TRUE

Contains(seq, x) == \E i \in 1..Len(seq) : seq[i] = x

Range(seq) == {seq[i] : i \in 1..Len(seq)}

\* The largest value of a u16.
U16Max == 65535

(***************************************************************************)
(* The environment: search roots, theme names and the data on disk.        *)
(***************************************************************************)

Roots == {"r1", "r2"}

\* "" is the empty theme name: Path::join("") names the search root itself.
ThemeNames == {"", "hicolor", "A", "B"}

\* An icon name is the sequence of its dot-separated segments; <<>> is "".
IconNames == {<<>>, <<"folder">>}

\* icon/icon_dir.rs: a directory section as IconDir::new leaves it.
IconDir(path, size, scale, size_type, threshold) ==
    [path |-> path, size |-> size, scale |-> scale,
     size_type |-> size_type, threshold |-> threshold]

\* IconDir::threshold
threshold(d) == IF d.threshold = None THEN 2 ELSE Unwrap(d.threshold)

\* IconDir::is_valid
is_valid(d) == d.size # 0

D0  == IconDir("0x0", 0, 1, "Threshold", None)
D16 == IconDir("16x16", 16, 1, "Threshold", None)
D32 == IconDir("32x32", 32, 1, "Fixed", None)
D48 == IconDir("48x48", 48, 2, "Threshold", Some(4))

\* What sits at root/theme: not a directory, a directory without index.theme,
\* an index.theme that Ini::load_from_file cannot parse, or an index.theme
\* with its Inherits items (split and trimmed) and its directory sections in
\* file order.
NotDirectory == [kind |-> "NotDirectory", inherits |-> <<>>, dirs |-> <<>>]

IndexNotFound == [kind |-> "IndexNotFound", inherits |-> <<>>, dirs |-> <<>>]

Unparsable == [kind |-> "Unparsable", inherits |-> <<>>, dirs |-> <<>>]

Index(inherits, dirs) == [kind |-> "Index", inherits |-> inherits, dirs |-> dirs]

\* The file systems the model runs on.  A world is a record of parameters:
\* what themes A and B declare as Inherits, and where the icon "folder" lies.
Worlds ==
    [inhA : {<<"B">>, <<"hicolor", "B", "B">>, <<"A", "">>},
     inhB : {<<>>, <<"A">>},
     at   : {{}, {"hicolor"}, {"B", "root"}, {"B", "hicolor"}, {"A", "B", "hicolor"}}]

\* The content of root/theme in world w.
IndexFile(w, root, theme) ==
    CASE root = "r1" /\ theme = "hicolor" -> Index(<<>>, <<D16, D0>>)
      [] root = "r2" /\ theme = "hicolor" -> Index(<<"B">>, <<D0>>)
      [] root = "r1" /\ theme = "A"       -> Index(w.inhA, <<D16, D32>>)
      [] root = "r2" /\ theme = "A"       -> Index(<<"hicolor">>, <<D48>>)
      [] root = "r1" /\ theme = "B"       -> NotDirectory
      [] root = "r2" /\ theme = "B"       -> Index(w.inhB, <<D0, D16>>)
      [] root = "r1" /\ theme = ""        ->
            IF "root" \in w.at THEN Index(<<>>, <<D16>>) ELSE IndexNotFound
      [] root = "r2" /\ theme = ""        -> Unparsable
      [] OTHER                            -> IndexNotFound

\* The files of world w, as paths <<root, theme, directory, file name>>.
Files(w) ==
    (IF "A" \in w.at
        THEN {<<"r1", "A", "32x32", <<"folder", "png">>>>,
              <<"r1", "A", "32x32", <<"folder", "xpm">>>>,
              <<"r2", "A", "48x48", <<"folder", "svg">>>>}
        ELSE {})
    \cup
    (IF "B" \in w.at
        THEN {<<"r2", "B", "16x16", <<"folder", "png">>>>,
              <<"r2", "B", "16x16", <<"folder", "svg">>>>,
              <<"r2", "B", "0x0", <<"folder", "png">>>>}
        ELSE {})
    \cup
    (IF "hicolor" \in w.at
        THEN {<<"r1", "hicolor", "16x16", <<"folder", "png">>>>,
              <<"r2", "hicolor", "0x0", <<"folder", "png">>>>}
        ELSE {})
    \cup
    (IF "root" \in w.at
        THEN {<<"r1", "", "16x16", <<"folder", "svg">>>>}
        ELSE {})

\* Path::exists
exists(w, path) == path \in Files(w)

(***************************************************************************)
(* icon/icon_theme.rs: IconTheme and IconThemes.                           *)
(***************************************************************************)

\* IconFileType::types with IconFileType::as_ref
types == <<"png", "svg", "xpm">>

\* Path::with_extension on a file name: the part after the last dot, if
\* there is one, is replaced by the extension; a dot that begins the file
\* name begins no extension.
with_extension(name, ext) ==
    IF Len(name) > 2 \/ (Len(name) = 2 /\ name[1] # "")
    THEN Append(SubSeq(name, 1, Len(name) - 1), ext)
    ELSE Append(name, ext)

\* The loop "if !v.contains(&x) { v.push(x) }" over the items of xs.
RECURSIVE PushNew(_, _)
PushNew(v, xs) ==
    IF xs = <<>> THEN v
    ELSE With(IF Contains(v, Head(xs)) THEN v ELSE Append(v, Head(xs)),
              LAMBDA v1 : PushNew(v1, Tail(xs)))

\* A variant of from_dir that returns the theme whether or not a valid
\* directory is left.
from_dir_with_any_key_list(w, content_dir) ==
    LET f == IndexFile(w, content_dir[1], content_dir[2])
        key_list == IF f.kind = "Index" THEN SelectSeq(f.dirs, is_valid) ELSE <<>>
    IN  IF f.kind = "NotDirectory" THEN None
        ELSE IF f.kind = "IndexNotFound" THEN None
        ELSE Some([theme |-> [content_dir |-> content_dir, key_list |-> key_list],
                   parents |-> PushNew(<<>>, f.inherits)])

\* IconTheme::from_dir: Some([theme, parents]) or None.  An index.theme that
\* does not parse leaves the key list empty.
from_dir(w, content_dir) ==
    LET f == IndexFile(w, content_dir[1], content_dir[2])
        key_list == IF f.kind = "Index" THEN SelectSeq(f.dirs, is_valid) ELSE <<>>
    IN  IF f.kind = "NotDirectory" THEN None
        ELSE IF f.kind = "IndexNotFound" THEN None
        ELSE IF key_list = <<>> THEN None
        ELSE Some([theme |-> [content_dir |-> content_dir, key_list |-> key_list],
                   parents |-> PushNew(<<>>, f.inherits)])

\* IconTheme::entries: the path it probes for a directory and a file type,
\* content_dir.join(path).join(icon_name).with_extension(type).
icon_path(theme, dir, name, ty) ==
    <<theme.content_dir[1], theme.content_dir[2], dir.path, with_extension(name, ty)>>

\* The files of one directory, in the order of types.
RECURSIVE dir_entries(_, _, _, _, _)
dir_entries(w, theme, dir, name, i) ==
    IF i > Len(types) THEN <<>>
    ELSE LET path == icon_path(theme, dir, name, types[i])
             rest == dir_entries(w, theme, dir, name, i + 1)
         IN  IF exists(w, path)
             THEN <<[dir_info |-> dir, path |-> path, icon_type |-> types[i]]>> \o rest
             ELSE rest

RECURSIVE theme_entries(_, _, _, _)
theme_entries(w, theme, name, k) ==
    IF k > Len(theme.key_list) THEN <<>>
    ELSE dir_entries(w, theme, theme.key_list[k], name, 1)
         \o theme_entries(w, theme, name, k + 1)

\* IconTheme::entries
entries(w, theme, name) ==
    IF name = <<>> THEN <<>> ELSE theme_entries(w, theme, name, 1)

\* IconThemes::find: the chain of theme_name over the search paths.
RECURSIVE find_from(_, _, _, _)
find_from(w, themes, paths, i) ==
    IF i > Len(paths) THEN themes
    ELSE With(from_dir(w, <<paths[i], themes.name>>),
              LAMBDA r :
                 IF r = None THEN find_from(w, themes, paths, i + 1)
                 ELSE With([themes EXCEPT !.parents = PushNew(@, Unwrap(r).parents),
                                          !.themes = Append(@, Unwrap(r).theme)],
                           LAMBDA themes1 : find_from(w, themes1, paths, i + 1)))

\* A variant of find that takes the Inherits items of an index whether or not
\* the theme loads from it.
RECURSIVE find_from_all_inherits(_, _, _, _)
find_from_all_inherits(w, themes, paths, i) ==
    IF i > Len(paths) THEN themes
    ELSE With(from_dir(w, <<paths[i], themes.name>>),
              LAMBDA r :
                 With([themes EXCEPT
                         !.parents = PushNew(@, IndexFile(w, paths[i], themes.name).inherits),
                         !.themes = IF r = None THEN @ ELSE Append(@, Unwrap(r).theme)],
                      LAMBDA themes1 : find_from_all_inherits(w, themes1, paths, i + 1)))

find_all_inherits(w, name, paths) ==
    LET themes == find_from_all_inherits(w, [name |-> name, themes |-> <<>>,
                                             parents |-> <<>>], paths, 1)
    IN  [themes EXCEPT !.parents = PushNew(@, <<"hicolor">>)]

\* A variant of find whose scan of the search paths ends at the first path
\* where the theme does not load.
RECURSIVE find_from_until_failure(_, _, _, _)
find_from_until_failure(w, themes, paths, i) ==
    IF i > Len(paths) THEN themes
    ELSE With(from_dir(w, <<paths[i], themes.name>>),
              LAMBDA r :
                 IF r = None THEN themes
                 ELSE With([themes EXCEPT !.parents = PushNew(@, Unwrap(r).parents),
                                          !.themes = Append(@, Unwrap(r).theme)],
                           LAMBDA themes1 :
                              find_from_until_failure(w, themes1, paths, i + 1)))

find_until_failure(w, name, paths) ==
    LET themes == find_from_until_failure(w, [name |-> name, themes |-> <<>>,
                                              parents |-> <<>>], paths, 1)
    IN  [themes EXCEPT !.parents = PushNew(@, <<"hicolor">>)]

find(w, name, paths) ==
    LET themes == find_from(w, [name |-> name, themes |-> <<>>, parents |-> <<>>], paths, 1)
    IN  [themes EXCEPT !.parents = PushNew(@, <<"hicolor">>)]

\* A variant of is_empty that looks at the parent list instead.
is_empty_by_parents(themes) == themes.parents = <<>>

\* IconThemes::is_empty
is_empty(themes) == themes.themes = <<>>

\* IconThemes::find as src/src/lib.rs has it.  The index is read inside the
\* loop over the search paths: the parents of an Inherits key are pushed if
\* new and "hicolor" is pushed, if new, in the same branch, so only when an
\* index has an Inherits key; the theme is kept when it has a valid directory.
RECURSIVE lib_find_from(_, _, _, _)
lib_find_from(w, themes, paths, i) ==
    IF i > Len(paths) THEN themes
    ELSE With(IndexFile(w, paths[i], themes.name),
              LAMBDA f :
                 IF f.kind # "Index" THEN lib_find_from(w, themes, paths, i + 1)
                 ELSE With([themes EXCEPT
                              !.parents =
                                 IF f.inherits = <<>> THEN @
                                 ELSE PushNew(PushNew(@, f.inherits), <<"hicolor">>),
                              !.themes =
                                 IF SelectSeq(f.dirs, is_valid) = <<>> THEN @
                                 ELSE Append(@, [content_dir |-> <<paths[i], themes.name>>,
                                                 key_list |-> SelectSeq(f.dirs, is_valid)])],
                           LAMBDA themes1 : lib_find_from(w, themes1, paths, i + 1)))

lib_find(w, name, paths) ==
    lib_find_from(w, [name |-> name, themes |-> <<>>, parents |-> <<>>], paths, 1)

\* A variant of Icon::new that builds the Icon from whatever it is given.
Icon_new_unchecked(name, theme, files) ==
    Some([icon_name |-> name, theme_name |-> theme, files |-> files])

\* icon.rs, Icon::new
Icon_new(name, theme, files) ==
    IF name = <<>> \/ theme = "" \/ files = <<>> THEN None
    ELSE Some([icon_name |-> name, theme_name |-> theme, files |-> files])

RECURSIVE flat_entries(_, _, _, _)
flat_entries(w, themes, name, i) ==
    IF i > Len(themes.themes) THEN <<>>
    ELSE entries(w, themes.themes[i], name) \o flat_entries(w, themes, name, i + 1)

\* A variant of find_icon in which the first root that has the icon shadows
\* the roots after it.
RECURSIVE first_entries(_, _, _, _)
first_entries(w, themes, name, i) ==
    IF i > Len(themes.themes) THEN <<>>
    ELSE IF entries(w, themes.themes[i], name) # <<>>
    THEN entries(w, themes.themes[i], name)
    ELSE first_entries(w, themes, name, i + 1)

themes_find_icon_shadowing(w, themes, name) ==
    Icon_new(name, themes.name, first_entries(w, themes, name, 1))

\* IconThemes::find_icon
themes_find_icon(w, themes, name) ==
    IF is_empty(themes) THEN None
    ELSE LET es == flat_entries(w, themes, name, 1)
         IN  IF es = <<>> THEN None ELSE Icon_new(name, themes.name, es)


(***************************************************************************)
(* search_paths.rs and theme_name_provider.rs.                             *)
(***************************************************************************)

System == [kind |-> "System", dirs |-> <<>>]

Custom(dirs) == [kind |-> "Custom", dirs |-> dirs]

\* The data directories the xdg crate reports on this machine.
SystemPaths == <<"r1", "r2">>

\* SearchPaths::paths
paths(sp) == IF sp.kind = "System" THEN SystemPaths ELSE sp.dirs

\* The values set_search_paths is called with.
SearchPathValues == {System, Custom(<<"r1">>), Custom(<<"r2">>)}

User(name) == [kind |-> "User", name |-> name]

\* A ThemeNameProvider::Custom whose function returns an error.
CustomFailing == [kind |-> "Custom", name |-> ""]

\* The values set_theme_name_provider is called with.
ProviderValues == {User(t) : t \in ThemeNames} \cup {CustomFailing}

\* PartialEq for ThemeNameProvider: two Custom providers are never equal.
provider_eq(p, q) ==
    IF p.kind # q.kind THEN FALSE
    ELSE IF p.kind = "Custom" THEN FALSE
    ELSE p.name = q.name

Ok(v) == [tag |-> "Ok", v |-> v]

Err(e) == [tag |-> "Err", v |-> e]

\* theme_name_provider/error.rs: Error::Custom { source }, the wrapper of the
\* error a custom function returned.
ProviderError_Custom == [variant |-> "Custom", source |-> "boxed error"]

\* ThemeNameProvider::theme_name
provider_theme_name(p) ==
    IF p.kind = "User" THEN Ok(p.name) ELSE Err(ProviderError_Custom)

\* error.rs: Error::theme_not_found
theme_not_found(name) == [variant |-> "ThemeNotFound", theme_name |-> name]

\* error.rs: impl From<ProviderError> for Error
Error_from(source) == [variant |-> "ThemeNameProvider", source |-> source]

(***************************************************************************)
(* loader.rs: IconLoader.  The caches are total maps to an Option: None    *)
(* is "no entry".                                                          *)
(***************************************************************************)

\* The deepest recursion of find_icon the model follows.
MaxDepth == 5

EmptyThemeCache == [t \in ThemeNames |-> None]

EmptyIconCache == [n \in IconNames |-> None]

\* IconLoader::load_themes: the chain returned and the cache afterwards.
\* A variant of load_themes that reads the first search path only.
load_themes_first_path(w, sp, cache, name) ==
    IF cache[name] # None
    THEN [themes |-> Unwrap(cache[name]), cache |-> cache]
    ELSE With(find(w, name, SubSeq(paths(sp), 1, 1)),
              LAMBDA new_themes :
                 [themes |-> new_themes,
                  cache |-> [cache EXCEPT ![name] = Some(new_themes)]])

load_themes(w, sp, cache, name) ==
    IF cache[name] # None
    THEN [themes |-> Unwrap(cache[name]), cache |-> cache]
    ELSE With(find(w, name, paths(sp)),
              LAMBDA new_themes :
                 [themes |-> new_themes,
                  cache |-> [cache EXCEPT ![name] = Some(new_themes)]])

\* IconLoader::theme_exists: the answer and the cache afterwards.
\* A variant of theme_exists without the test for the empty name.
theme_exists_any_name(w, sp, cache, name) ==
    LET lt == load_themes(w, sp, cache, name)
    IN  [exists |-> ~is_empty(lt.themes), cache |-> lt.cache]

\* IconLoader::theme_exists
theme_exists(w, sp, cache, name) ==
    IF name = "" THEN [exists |-> FALSE, cache |-> cache]
    ELSE LET lt == load_themes(w, sp, cache, name)
         IN  [exists |-> ~is_empty(lt.themes), cache |-> lt.cache]

\* IconLoader::find_icon from its entry to its loop: the guard, the push on
\* searched_themes, load_themes and the search of the chain.  A match is
\* returned through every caller at once, so it empties the stack; otherwise
\* a frame for the loop over the parents is pushed.
find_icon_enter(w, sp, cache, theme, name, searched, stk) ==
    IF theme = "" \/ name = <<>>
    THEN [searched |-> searched, cache |-> cache, stack |-> stk, found |-> None]
    ELSE With(load_themes(w, sp, cache, theme),
              LAMBDA lt :
                 With(themes_find_icon(w, lt.themes, name),
                      LAMBDA r :
                         [searched |-> Append(searched, theme),
                          cache |-> lt.cache,
                          stack |-> IF r = None
                                    THEN Append(stk, [parents |-> lt.themes.parents,
                                                      i |-> 1])
                                    ELSE <<>>,
                          found |-> r]))

\* A variant of the loop that enters a parent whether or not it was searched.
find_icon_loop_revisiting(w, sp, cache, name, searched, stk) ==
    LET top == stk[Len(stk)]
        below == SubSeq(stk, 1, Len(stk) - 1)
    IN  IF top.i > Len(top.parents)
        THEN [searched |-> searched, cache |-> cache, stack |-> below, found |-> None]
        ELSE find_icon_enter(w, sp, cache, top.parents[top.i], name, searched,
                             Append(below, [top EXCEPT !.i = @ + 1]))

\* A variant of the loop that takes the parents from the last to the first.
find_icon_loop_reversed(w, sp, cache, name, searched, stk) ==
    LET top == stk[Len(stk)]
        below == SubSeq(stk, 1, Len(stk) - 1)
    IN  IF top.i > Len(top.parents)
        THEN [searched |-> searched, cache |-> cache, stack |-> below, found |-> None]
        ELSE LET parent == top.parents[Len(top.parents) + 1 - top.i]
                 stk1 == Append(below, [top EXCEPT !.i = @ + 1])
             IN  IF Contains(searched, parent)
                 THEN [searched |-> searched, cache |-> cache, stack |-> stk1,
                       found |-> None]
                 ELSE find_icon_enter(w, sp, cache, parent, name, searched, stk1)

\* One turn of the loop "for parent in themes.parents()" of the innermost
\* find_icon, or its return of None once the parents are exhausted.
find_icon_loop(w, sp, cache, name, searched, stk) ==
    LET top == stk[Len(stk)]
        below == SubSeq(stk, 1, Len(stk) - 1)
    IN  IF top.i > Len(top.parents)
        THEN [searched |-> searched, cache |-> cache, stack |-> below, found |-> None]
        ELSE LET parent == top.parents[top.i]
                 stk1 == Append(below, [top EXCEPT !.i = @ + 1])
             IN  IF Contains(searched, parent)
                 THEN [searched |-> searched, cache |-> cache, stack |-> stk1,
                       found |-> None]
                 ELSE find_icon_enter(w, sp, cache, parent, name, searched, stk1)

\* What load_icon returns for the Option<Icon> it found or had cached.
load_icon_result(opt) == IF opt = None THEN Err("IconNotFound") ELSE Ok(Unwrap(opt))

\* The threads that call into one shared loader.
MaxThreads == 2

Threads == 1..MaxThreads

\* A thread outside any call.
IdleThread == [pc |-> "idle", name |-> "", new_themes |-> None, themes |-> None,
               result |-> FALSE, built |-> FALSE]

\* No call through &self is in progress: what a &mut self method requires.
Exclusive ==
    /\ pc = "idle"
    /\ \A th \in Threads : threads[th].pc = "idle"

Init ==
    /\ world \in Worlds
    /\ theme_name = "hicolor"
    /\ fallback_theme_name = "hicolor"
    /\ theme_name_provider = User("hicolor")
    /\ theme_cache = EmptyThemeCache
    /\ icon_cache = EmptyIconCache
    /\ search_paths = System
    /\ pc = "idle"
    /\ icon_name = <<>>
    /\ searched_themes = <<>>
    /\ stack = <<>>
    /\ found = None
    /\ overflow_checks = FALSE
    /\ icon = None
    /\ sel = None
    /\ threads = [th \in Threads |-> IdleThread]
    /\ probed = None
    /\ parsed = None

\* The state a step c of find_icon leaves: a match ends the search, anything
\* else leaves load_icon in the given phase.  The recursion is followed to
\* MaxDepth frames.
Continue(c, phase) ==
    /\ Len(c.stack) <= MaxDepth
    /\ searched_themes' = c.searched
    /\ theme_cache' = c.cache
    /\ stack' = c.stack
    /\ found' = c.found
    /\ pc' = IF c.found # None THEN "return" ELSE phase

\* load_icon with the icon in the icon cache: the cached value is returned.
LoadIconCached(name) ==
    /\ pc = "idle"
    /\ icon_cache[name] # None
    /\ UNCHANGED <<world, theme_name, fallback_theme_name, theme_cache, icon_cache,
                   search_paths, theme_name_provider, pc, icon_name,
                   searched_themes, stack, found>>
    /\ UNCHANGED <<size_vars, threads, file_vars>>

\* A variant of load_icon that does not consult the icon cache.
LoadIcon_uncached(name) ==
    /\ pc = "idle"
    /\ icon_name' = name
    /\ Continue(find_icon_enter(world, search_paths, theme_cache, theme_name,
                                name, <<>>, <<>>), "primary")
    /\ UNCHANGED <<world, theme_name, fallback_theme_name, icon_cache,
                   search_paths, theme_name_provider>>
    /\ UNCHANGED <<size_vars, threads, file_vars>>

\* load_icon without a cache entry: find_icon is entered for the current theme.
LoadIcon(name) ==
    /\ pc = "idle"
    /\ icon_cache[name] = None
    /\ icon_name' = name
    /\ Continue(find_icon_enter(world, search_paths, theme_cache, theme_name,
                                name, <<>>, <<>>), "primary")
    /\ UNCHANGED <<world, theme_name, fallback_theme_name, icon_cache,
                   search_paths, theme_name_provider>>
    /\ UNCHANGED <<size_vars, threads, file_vars>>

\* find_icon at work below the current theme or below the fallback theme.
FindIconStep ==
    /\ pc \in {"primary", "fallback"}
    /\ stack # <<>>
    /\ \E c \in {find_icon_loop(world, search_paths, theme_cache, icon_name,
                               searched_themes, stack)} : Continue(c, pc)
    /\ UNCHANGED <<world, theme_name, fallback_theme_name, icon_cache,
                   search_paths, theme_name_provider, icon_name>>
    /\ UNCHANGED <<size_vars, threads, file_vars>>

\* The or_else of load_icon: the search from the current theme returned None
\* and find_icon is entered for the fallback theme, with the same Vec.
FindIconFallback ==
    /\ pc = "primary"
    /\ stack = <<>>
    /\ \E c \in {find_icon_enter(world, search_paths, theme_cache, fallback_theme_name,
                                icon_name, searched_themes, <<>>)} :
          Continue(c, "fallback")
    /\ UNCHANGED <<world, theme_name, fallback_theme_name, icon_cache,
                   search_paths, theme_name_provider, icon_name>>
    /\ UNCHANGED <<size_vars, threads, file_vars>>

\* The search from the fallback theme returned None.
FindIconExhausted ==
    /\ pc = "fallback"
    /\ stack = <<>>
    /\ pc' = "return"
    /\ found' = None
    /\ UNCHANGED <<world, theme_name, fallback_theme_name, theme_cache, icon_cache,
                   search_paths, theme_name_provider, icon_name, searched_themes,
                   stack>>
    /\ UNCHANGED <<size_vars, threads, file_vars>>

\* The end of load_icon: the result enters the icon cache and is returned.
LoadIconReturn ==
    /\ pc = "return"
    /\ icon_cache' = [icon_cache EXCEPT ![icon_name] = Some(found)]
    /\ pc' = "idle"
    /\ icon_name' = <<>>
    /\ searched_themes' = <<>>
    /\ stack' = <<>>
    /\ found' = None
    /\ UNCHANGED <<world, theme_name, fallback_theme_name, theme_cache,
                   search_paths, theme_name_provider>>
    /\ UNCHANGED <<size_vars, threads, file_vars>>

\* A variant of set_search_paths that leaves the icon cache as it is.
SetSearchPaths_keeping_icons(sp) ==
    /\ Exclusive
    /\ IF search_paths = sp
       THEN UNCHANGED <<search_paths, theme_cache, icon_cache>>
       ELSE /\ search_paths' = sp
            /\ theme_cache' = EmptyThemeCache
            /\ icon_cache' = icon_cache
    /\ UNCHANGED <<world, theme_name, fallback_theme_name, theme_name_provider,
                   pc, icon_name, searched_themes, stack, found>>
    /\ UNCHANGED <<size_vars, threads, file_vars>>

\* A variant of set_search_paths that leaves the theme cache as it is.
SetSearchPaths_keeping_themes(sp) ==
    /\ Exclusive
    /\ IF search_paths = sp
       THEN UNCHANGED <<search_paths, theme_cache, icon_cache>>
       ELSE /\ search_paths' = sp
            /\ theme_cache' = theme_cache
            /\ icon_cache' = EmptyIconCache
    /\ UNCHANGED <<world, theme_name, fallback_theme_name, theme_name_provider,
                   pc, icon_name, searched_themes, stack, found>>
    /\ UNCHANGED <<size_vars, threads, file_vars>>

\* A variant of set_search_paths without the test for an equal value.
SetSearchPaths_unconditionally(sp) ==
    /\ Exclusive
    /\ search_paths' = sp
    /\ theme_cache' = EmptyThemeCache
    /\ icon_cache' = EmptyIconCache
    /\ UNCHANGED <<world, theme_name, fallback_theme_name, theme_name_provider,
                   pc, icon_name, searched_themes, stack, found>>
    /\ UNCHANGED <<size_vars, threads, file_vars>>

\* IconLoader::set_search_paths
SetSearchPaths(sp) ==
    /\ Exclusive
    /\ IF search_paths = sp
       THEN UNCHANGED <<search_paths, theme_cache, icon_cache>>
       ELSE /\ search_paths' = sp
            /\ theme_cache' = EmptyThemeCache
            /\ icon_cache' = EmptyIconCache
    /\ UNCHANGED <<world, theme_name, fallback_theme_name, theme_name_provider,
                   pc, icon_name, searched_themes, stack, found>>
    /\ UNCHANGED <<size_vars, threads, file_vars>>

\* A variant of set_theme_name_provider that takes over the theme name of a
\* User provider at once.
SetThemeNameProvider_updating(p) ==
    /\ Exclusive
    /\ IF provider_eq(theme_name_provider, p)
       THEN UNCHANGED <<theme_name_provider, theme_name>>
       ELSE /\ theme_name_provider' = p
            /\ theme_name' = IF p.kind = "User" THEN p.name ELSE theme_name
    /\ UNCHANGED <<world, fallback_theme_name, theme_cache, icon_cache,
                   search_paths, pc, icon_name, searched_themes, stack, found>>
    /\ UNCHANGED <<size_vars, threads, file_vars>>

\* IconLoader::set_theme_name_provider
SetThemeNameProvider(p) ==
    /\ Exclusive
    /\ IF provider_eq(theme_name_provider, p)
       THEN UNCHANGED theme_name_provider
       ELSE theme_name_provider' = p
    /\ UNCHANGED <<world, theme_name, fallback_theme_name, theme_cache, icon_cache,
                   search_paths, pc, icon_name, searched_themes, stack, found>>
    /\ UNCHANGED <<size_vars, threads, file_vars>>

\* A variant of update_theme_name that empties the icon cache before it asks
\* the provider.
update_theme_name_clearing_first(w, sp, provider, theme, cache, icons) ==
    LET r == provider_theme_name(provider)
        e == theme_exists(w, sp, cache, r.v)
    IN  IF r.tag = "Err"
        THEN [result |-> Err(Error_from(r.v)), theme_name |-> theme,
              theme_cache |-> cache, icon_cache |-> EmptyIconCache]
        ELSE IF theme = r.v
        THEN [result |-> Ok(<<>>), theme_name |-> theme,
              theme_cache |-> cache, icon_cache |-> EmptyIconCache]
        ELSE IF e.exists
        THEN [result |-> Ok(<<>>), theme_name |-> r.v,
              theme_cache |-> e.cache, icon_cache |-> EmptyIconCache]
        ELSE [result |-> Err(theme_not_found(r.v)), theme_name |-> theme,
              theme_cache |-> e.cache, icon_cache |-> EmptyIconCache]

\* A variant of update_theme_name that keeps the icon cache when it takes a
\* new theme name.
update_theme_name_keeping_icons(w, sp, provider, theme, cache, icons) ==
    LET r == provider_theme_name(provider)
        e == theme_exists(w, sp, cache, r.v)
    IN  IF r.tag = "Err"
        THEN [result |-> Err(Error_from(r.v)), theme_name |-> theme,
              theme_cache |-> cache, icon_cache |-> icons]
        ELSE IF theme = r.v
        THEN [result |-> Ok(<<>>), theme_name |-> theme,
              theme_cache |-> cache, icon_cache |-> icons]
        ELSE IF e.exists
        THEN [result |-> Ok(<<>>), theme_name |-> r.v,
              theme_cache |-> e.cache, icon_cache |-> icons]
        ELSE [result |-> Err(theme_not_found(r.v)), theme_name |-> theme,
              theme_cache |-> e.cache, icon_cache |-> icons]

\* IconLoader::update_theme_name: what it returns, and the theme name, the
\* theme cache and the icon cache it leaves.  The ? operator turns the
\* provider's error into the loader's error with From.
update_theme_name(w, sp, provider, theme, cache, icons) ==
    LET r == provider_theme_name(provider)
        e == theme_exists(w, sp, cache, r.v)
    IN  IF r.tag = "Err"
        THEN [result |-> Err(Error_from(r.v)), theme_name |-> theme,
              theme_cache |-> cache, icon_cache |-> icons]
        ELSE IF theme = r.v
        THEN [result |-> Ok(<<>>), theme_name |-> theme,
              theme_cache |-> cache, icon_cache |-> icons]
        ELSE IF e.exists
        THEN [result |-> Ok(<<>>), theme_name |-> r.v,
              theme_cache |-> e.cache, icon_cache |-> EmptyIconCache]
        ELSE [result |-> Err(theme_not_found(r.v)), theme_name |-> theme,
              theme_cache |-> e.cache, icon_cache |-> icons]

Updated(u) ==
    /\ theme_name' = u.theme_name
    /\ theme_cache' = u.theme_cache
    /\ icon_cache' = u.icon_cache

UpdateThemeName ==
    /\ Exclusive
    /\ Updated(update_theme_name(world, search_paths, theme_name_provider,
                                 theme_name, theme_cache, icon_cache))
    /\ UNCHANGED <<world, fallback_theme_name, search_paths, theme_name_provider,
                   pc, icon_name, searched_themes, stack, found>>
    /\ UNCHANGED <<size_vars, threads, file_vars>>

\* A variant of set_fallback_theme_name that empties the theme cache too.
SetFallbackThemeName_clearing_themes(t) ==
    /\ Exclusive
    /\ IF fallback_theme_name = t
       THEN UNCHANGED <<fallback_theme_name, icon_cache, theme_cache>>
       ELSE /\ fallback_theme_name' = t
            /\ icon_cache' = EmptyIconCache
            /\ theme_cache' = EmptyThemeCache
    /\ UNCHANGED <<world, theme_name, search_paths, theme_name_provider,
                   pc, icon_name, searched_themes, stack, found>>
    /\ UNCHANGED <<size_vars, threads, file_vars>>

\* A variant of set_fallback_theme_name that leaves the icon cache as it is.
SetFallbackThemeName_keeping_icons(t) ==
    /\ Exclusive
    /\ IF fallback_theme_name = t
       THEN UNCHANGED <<fallback_theme_name, icon_cache>>
       ELSE /\ fallback_theme_name' = t
            /\ icon_cache' = icon_cache
    /\ UNCHANGED <<world, theme_name, theme_cache, search_paths, theme_name_provider,
                   pc, icon_name, searched_themes, stack, found>>
    /\ UNCHANGED <<size_vars, threads, file_vars>>

\* IconLoader::set_fallback_theme_name
SetFallbackThemeName(t) ==
    /\ Exclusive
    /\ IF fallback_theme_name = t
       THEN UNCHANGED <<fallback_theme_name, icon_cache>>
       ELSE /\ fallback_theme_name' = t
            /\ icon_cache' = EmptyIconCache
    /\ UNCHANGED <<world, theme_name, theme_cache, search_paths, theme_name_provider,
                   pc, icon_name, searched_themes, stack, found>>
    /\ UNCHANGED <<size_vars, threads, file_vars>>

ThemeExists(t) ==
    /\ pc = "idle"
    /\ LET e == theme_exists(world, search_paths, theme_cache, t)
       IN  theme_cache' = e.cache
    /\ UNCHANGED <<world, theme_name, fallback_theme_name, icon_cache, search_paths,
                   theme_name_provider, pc, icon_name, searched_themes, stack, found>>
    /\ UNCHANGED <<size_vars, threads, file_vars>>

Next ==
    \/ \E n \in IconNames : LoadIconCached(n)
    \/ \E n \in IconNames : LoadIcon(n)
    \/ FindIconStep
    \/ FindIconFallback
    \/ FindIconExhausted
    \/ LoadIconReturn
    \/ \E sp \in SearchPathValues : SetSearchPaths(sp)
    \/ \E p \in ProviderValues : SetThemeNameProvider(p)
    \/ UpdateThemeName
    \/ \E t \in ThemeNames : SetFallbackThemeName(t)
    \/ \E t \in ThemeNames : ThemeExists(t)

Spec == Init /\ [][Next]_vars

(***************************************************************************)
(* Several threads on one shared loader.  Each thread calls theme_exists,  *)
(* whose load_themes is followed statement by statement: the read of the   *)
(* theme cache, IconThemes::find, the insert into the theme cache.  The    *)
(* setters take &mut self and run only while no call is in progress.       *)
(***************************************************************************)

\* theme_exists is entered: the empty name is answered at once.
ThreadCall(th, name) ==
    /\ threads[th].pc = "idle"
    /\ threads' = [threads EXCEPT ![th] =
                      IF name = ""
                      THEN [IdleThread EXCEPT !.pc = "done"]
                      ELSE [IdleThread EXCEPT !.pc = "get", !.name = name]]
    /\ UNCHANGED <<world, loader_vars, size_vars, file_vars>>

\* A variant of the read of the theme cache that takes every read for a miss.
ThreadGet_always_miss(th) ==
    /\ threads[th].pc = "get"
    /\ threads' = [threads EXCEPT ![th] = [@ EXCEPT !.pc = "find"]]
    /\ UNCHANGED <<world, loader_vars, size_vars, file_vars>>

\* load_themes: self.theme_cache.get(theme_name); a hit is returned.
ThreadGet(th) ==
    /\ threads[th].pc = "get"
    /\ threads' = [threads EXCEPT ![th] =
                      IF theme_cache[threads[th].name] # None
                      THEN [@ EXCEPT !.pc = "done",
                                     !.themes = theme_cache[threads[th].name],
                                     !.result =
                                        ~is_empty(Unwrap(theme_cache[threads[th].name]))]
                      ELSE [@ EXCEPT !.pc = "find"]]
    /\ UNCHANGED <<world, loader_vars, size_vars, file_vars>>

\* load_themes: IconThemes::find(theme_name, &self.search_paths()).
ThreadFind(th) ==
    /\ threads[th].pc = "find"
    /\ threads' = [threads EXCEPT ![th] =
                      [@ EXCEPT !.pc = "insert",
                                !.built = TRUE,
                                !.new_themes =
                                   Some(find(world, threads[th].name,
                                             paths(search_paths)))]]
    /\ UNCHANGED <<world, loader_vars, size_vars, file_vars>>

\* A variant of load_themes that returns the chain it built and stores nothing.
ThreadInsert_no_store(th) ==
    /\ threads[th].pc = "insert"
    /\ threads' = [threads EXCEPT ![th] =
                      [@ EXCEPT !.pc = "done",
                                !.new_themes = None,
                                !.themes = threads[th].new_themes,
                                !.result = ~is_empty(Unwrap(threads[th].new_themes))]]
    /\ UNCHANGED <<world, loader_vars, size_vars, file_vars>>

\* load_themes: self.theme_cache.insert(..), which stores the new chain
\* whether or not the name has an entry, and the return of new_themes.
ThreadInsert(th) ==
    /\ threads[th].pc = "insert"
    /\ theme_cache' = [theme_cache EXCEPT ![threads[th].name] = threads[th].new_themes]
    /\ threads' = [threads EXCEPT ![th] =
                      [@ EXCEPT !.pc = "done",
                                !.new_themes = None,
                                !.themes = threads[th].new_themes,
                                !.result = ~is_empty(Unwrap(threads[th].new_themes))]]
    /\ UNCHANGED <<world, theme_name, fallback_theme_name, icon_cache, search_paths,
                   theme_name_provider, pc, icon_name, searched_themes, stack, found>>
    /\ UNCHANGED <<size_vars, file_vars>>

\* The caller has taken the answer of theme_exists.
ThreadReturn(th) ==
    /\ threads[th].pc = "done"
    /\ threads' = [threads EXCEPT ![th] = IdleThread]
    /\ UNCHANGED <<world, loader_vars, size_vars, file_vars>>

\* A new loader on a file system that has a theme directly in a search root.
ConcInit ==
    /\ Init
    /\ world.at = {"B", "root"}

ConcNext ==
    \/ \E th \in Threads, name \in ThemeNames : ThreadCall(th, name)
    \/ \E th \in Threads : ThreadGet(th)
    \/ \E th \in Threads : ThreadFind(th)
    \/ \E th \in Threads : ThreadInsert(th)
    \/ \E th \in Threads : ThreadReturn(th)
    \/ \E sp \in SearchPathValues : SetSearchPaths(sp)
    \/ \E t \in ThemeNames : SetFallbackThemeName(t)

ConcSpec == ConcInit /\ [][ConcNext]_vars

(***************************************************************************)
(* IconTheme::entries on its own: one theme directory is asked for an icon *)
(* name, and the paths it probes are kept.                                 *)
(***************************************************************************)

\* The icon names entries is called with: "", "folder", "folder.new",
\* "folder-symbolic.new", "org.gnome.Foo" and ".hidden".
EntryNames ==
    {<<>>, <<"folder">>, <<"folder", "new">>, <<"folder-symbolic", "new">>,
     <<"org", "gnome", "Foo">>, <<"", "hidden">>}

\* The paths entries probes, in the order of its two loops.
probes(theme, name) ==
    IF name = <<>> THEN <<>>
    ELSE [i \in 1..(Len(theme.key_list) * Len(types)) |->
            icon_path(theme, theme.key_list[((i - 1) \div Len(types)) + 1], name,
                      types[((i - 1) % Len(types)) + 1])]

\* entries(icon_name) on the IconTheme that from_dir loaded at root/theme.
Entries(root, t, name) ==
    /\ from_dir(world, <<root, t>>) # None
    /\ probed' = Some([icon_name |-> name,
                       theme |-> Unwrap(from_dir(world, <<root, t>>)).theme,
                       paths |-> probes(Unwrap(from_dir(world, <<root, t>>)).theme, name),
                       entries |-> entries(world, Unwrap(from_dir(world, <<root, t>>)).theme,
                                           name)])
    /\ UNCHANGED <<world, loader_vars, size_vars, threads, parsed>>

PathNext == \E root \in Roots, t \in ThemeNames, name \in EntryNames : Entries(root, t, name)

PathSpec == Init /\ [][PathNext]_vars

(***************************************************************************)
(* icon/icon_dir.rs: IconDir::new on the properties of one directory       *)
(* section.  A value is the sequence of its characters, so that            *)
(* str::parse::<u16> can be modelled by what it does.                      *)
(***************************************************************************)

\* The values of the sections parsed: "16", "0", "", "ab", "-1", "+8",
\* "65535", "65536", and for Type "Fixed", "Scalable", "Threshold", "fixed".
V16 == <<"1", "6">>
V0 == <<"0">>
VEmpty == <<>>
VWord == <<"a", "b">>
VMinus1 == <<"-", "1">>
VPlus8 == <<"+", "8">>
VMax == <<"6", "5", "5", "3", "5">>
VOver == <<"6", "5", "5", "3", "6">>
TFixed == <<"F", "i", "x", "e", "d">>
TScalable == <<"S", "c", "a", "l", "a", "b", "l", "e">>
TThreshold == <<"T", "h", "r", "e", "s", "h", "o", "l", "d">>
TLower == <<"f", "i", "x", "e", "d">>

\* char::to_digit(10); 10 stands for "no digit".
to_digit(c) ==
    CASE c = "0" -> 0 [] c = "1" -> 1 [] c = "2" -> 2 [] c = "3" -> 3 [] c = "4" -> 4
      [] c = "5" -> 5 [] c = "6" -> 6 [] c = "7" -> 7 [] c = "8" -> 8 [] c = "9" -> 9
      [] OTHER -> 10

\* The digits of a u16 from position i on: every character a digit, and no
\* overflow of the checked multiplication and addition.
RECURSIVE parse_digits(_, _, _)
parse_digits(v, i, acc) ==
    IF i > Len(v) THEN Some(acc)
    ELSE IF to_digit(v[i]) = 10 THEN None
    ELSE IF acc * 10 + to_digit(v[i]) > U16Max THEN None
    ELSE parse_digits(v, i + 1, acc * 10 + to_digit(v[i]))

\* value.parse::<u16>(): Some(n) for Ok(n), None for Err.  An unsigned type
\* takes a leading "+" and no "-".
parse_u16(v) ==
    IF v = <<>> THEN None
    ELSE IF Len(v) = 1 /\ v[1] \in {"+", "-"} THEN None
    ELSE IF v[1] = "+" THEN parse_digits(v, 2, 0)
    ELSE parse_digits(v, 1, 0)

\* A variant of the conversion that takes an unrecognised Type for Fixed.
IconSizeType_from_fixed(v) ==
    IF v = TScalable THEN "Scalable"
    ELSE IF v = TThreshold THEN "Threshold"
    ELSE "Fixed"

\* impl From<S> for IconSizeType
IconSizeType_from(v) ==
    IF v = TFixed THEN "Fixed"
    ELSE IF v = TScalable THEN "Scalable"
    ELSE "Threshold"

\* IconDir::new, one turn of its loop: what property <<key, value>> makes of
\* dir_info.
set_property(dir_info, key, value) ==
    CASE key = "Size" ->
            IF parse_u16(value) # None
            THEN [dir_info EXCEPT !.size = Unwrap(parse_u16(value))] ELSE dir_info
      [] key = "Scale" ->
            IF parse_u16(value) # None
            THEN [dir_info EXCEPT !.scale = Unwrap(parse_u16(value))] ELSE dir_info
      [] key = "Context" -> [dir_info EXCEPT !.context = Some(value)]
      [] key = "Type" -> [dir_info EXCEPT !.size_type = IconSizeType_from(value)]
      [] key = "Threshold" ->
            IF parse_u16(value) # None
            THEN [dir_info EXCEPT !.threshold = parse_u16(value)] ELSE dir_info
      [] key = "MinSize" ->
            IF parse_u16(value) # None
            THEN [dir_info EXCEPT !.min_size = parse_u16(value)] ELSE dir_info
      [] key = "MaxSize" ->
            IF parse_u16(value) # None
            THEN [dir_info EXCEPT !.max_size = parse_u16(value)] ELSE dir_info
      [] OTHER -> dir_info

RECURSIVE IconDir_new_from(_, _, _)
IconDir_new_from(dir_info, properties, i) ==
    IF i > Len(properties) THEN dir_info
    ELSE With(set_property(dir_info, properties[i][1], properties[i][2]),
              LAMBDA d : IconDir_new_from(d, properties, i + 1))

\* IconDir::new
IconDir_new(path, properties) ==
    IconDir_new_from([path |-> path, size |-> 0, scale |-> 1, context |-> None,
                      size_type |-> "Threshold", max_size |-> None, min_size |-> None,
                      threshold |-> None], properties, 1)

\* IconDir::max_size
max_size(d) == IF d.max_size = None THEN d.size ELSE Unwrap(d.max_size)

\* IconDir::min_size
min_size(d) == IF d.min_size = None THEN d.size ELSE Unwrap(d.min_size)

\* The longest section parsed.
MaxProps == 2

\* The properties the sections are made of.
Properties ==
    ({"Size", "Scale", "Threshold", "MinSize", "MaxSize"}
        \X {V16, V0, VEmpty, VWord, VMinus1, VPlus8, VMax, VOver})
    \cup ({"Type"} \X {TFixed, TScalable, TThreshold, TLower, V16})
    \cup {<<"Context", VWord>>, <<"Foo", V16>>, <<"size", V16>>}

Sections == UNION {[1..n -> Properties] : n \in 0..MaxProps}

\* from_dir reads a section named "dir" with the given properties, followed
\* by the section of D16, and pushes the directories that are valid.
ParseSection(properties) ==
    /\ parsed' = Some([properties |-> properties,
                       dir_info |-> IconDir_new("dir", properties),
                       key_list |-> SelectSeq(<<IconDir_new("dir", properties), D16>>,
                                              is_valid)])
    /\ UNCHANGED <<world, loader_vars, size_vars, threads, probed>>

\* One index is read in a behaviour.
ParseNext == parsed = None /\ \E properties \in Sections : ParseSection(properties)

\* Nothing of the loader is at work; the file system is one of Worlds.
ParseInit ==
    /\ Init
    /\ world = [inhA |-> <<"B">>, inhB |-> <<>>, at |-> {}]

ParseSpec == ParseInit /\ [][ParseNext]_vars


(***************************************************************************)
(* icon.rs: the size matcher.  A selection returns the index of the file   *)
(* it picked in Icon::files, or None, or panics.                           *)
(***************************************************************************)

\* The number of values of a u16.
U16Mod == 65536

SomeFile(i) == [tag |-> "Some", i |-> i]

NoFile == [tag |-> "None", i |-> 0]

Panic == [tag |-> "Panic", i |-> 0]

\* The filters handed to file_for_size_filtered.
NoFilter == [kind |-> "any", scale |-> 0, icon_type |-> ""]

ScaleIs(n) == [kind |-> "scale", scale |-> n, icon_type |-> ""]

TypeIs(t) == [kind |-> "type", scale |-> 0, icon_type |-> t]

passes(filter, file) ==
    CASE filter.kind = "scale" -> file.dir_info.scale = filter.scale
      [] filter.kind = "type"  -> file.icon_type = filter.icon_type
      [] OTHER                 -> TRUE

\* The indices of the sequence files whose file satisfies P, in order.
Indices(files, P(_)) ==
    SelectSeq([i \in 1..Len(files) |-> i], LAMBDA i : P(files[i]))

\* A variant of exact_fit: the last of the exact fits is returned.
exact_fit_last(files, idxs, size) ==
    LET hit == SelectSeq(idxs, LAMBDA i : files[i].dir_info.size = size)
    IN  IF hit = <<>> THEN NoFile ELSE SomeFile(hit[Len(hit)])

\* Iterator::find over the exact fits.
exact_fit(files, idxs, size) ==
    LET hit == SelectSeq(idxs, LAMBDA i : files[i].dir_info.size = size)
    IN  IF hit = <<>> THEN NoFile ELSE SomeFile(Head(hit))

\* The closure of the threshold fit, in u16 arithmetic:
\*   size >= dir.size() - dir.threshold() && size <= dir.size() + dir.threshold()
\* With overflow checks a difference below 0 or a sum above U16Max panics,
\* without them it wraps; the sum is computed only if the first test holds.
threshold_test(d, size, oc) ==
    IF d.size < threshold(d) /\ oc THEN "panic"
    ELSE IF size >= (d.size - threshold(d)) % U16Mod
    THEN IF d.size + threshold(d) > U16Max /\ oc THEN "panic"
         ELSE IF size <= (d.size + threshold(d)) % U16Mod THEN "in" ELSE "out"
    ELSE "out"

\* Iterator::find with that closure over the files of type Threshold.
RECURSIVE threshold_fit(_, _, _, _)
threshold_fit(files, idxs, size, oc) ==
    IF idxs = <<>> THEN NoFile
    ELSE CASE threshold_test(files[Head(idxs)].dir_info, size, oc) = "panic" -> Panic
           [] threshold_test(files[Head(idxs)].dir_info, size, oc) = "in" ->
                SomeFile(Head(idxs))
           [] OTHER -> threshold_fit(files, Tail(idxs), size, oc)

\* Iterator::min_by_key by directory size: the first of the smallest.
RECURSIVE min_by_key(_, _, _)
min_by_key(files, idxs, best) ==
    IF idxs = <<>> THEN best
    ELSE min_by_key(files, Tail(idxs),
                    IF best.tag = "None"
                       \/ files[Head(idxs)].dir_info.size < files[best.i].dir_info.size
                    THEN SomeFile(Head(idxs)) ELSE best)

\* Iterator::max_by_key by directory size: the last of the largest.
RECURSIVE max_by_key(_, _, _)
max_by_key(files, idxs, best) ==
    IF idxs = <<>> THEN best
    ELSE max_by_key(files, Tail(idxs),
                    IF best.tag = "None"
                       \/ files[Head(idxs)].dir_info.size >= files[best.i].dir_info.size
                    THEN SomeFile(Head(idxs)) ELSE best)

\* The rest of file_for_size_filtered once no exact and no threshold fit was
\* found: a slightly bigger fit, or else the biggest available.
bigger_or_biggest(files, idxs, size) ==
    IF SelectSeq(idxs, LAMBDA i : files[i].dir_info.size > size) # <<>>
    THEN min_by_key(files, SelectSeq(idxs, LAMBDA i : files[i].dir_info.size > size),
                    NoFile)
    ELSE max_by_key(files, idxs, NoFile)

\* file_for_size_filtered after the exact fit failed.
threshold_or_later(files, idxs, size, oc, th) ==
    IF th.tag = "None" THEN bigger_or_biggest(files, idxs, size) ELSE th

\* A variant of size_resolution: the threshold fit is tried before the exact fit.
size_resolution_threshold_first(files, idxs, size, oc) ==
    IF threshold_fit(files,
                     SelectSeq(idxs, LAMBDA i : files[i].dir_info.size_type = "Threshold"),
                     size, oc).tag = "None"
    THEN IF exact_fit(files, idxs, size).tag = "Some"
         THEN exact_fit(files, idxs, size)
         ELSE bigger_or_biggest(files, idxs, size)
    ELSE threshold_fit(files,
                       SelectSeq(idxs, LAMBDA i : files[i].dir_info.size_type = "Threshold"),
                       size, oc)

\* The four rules of file_for_size_filtered over the files with indices idxs.
size_resolution(files, idxs, size, oc) ==
    IF exact_fit(files, idxs, size).tag = "Some"
    THEN exact_fit(files, idxs, size)
    ELSE threshold_or_later(
             files, idxs, size, oc,
             threshold_fit(files,
                           SelectSeq(idxs,
                                     LAMBDA i : files[i].dir_info.size_type = "Threshold"),
                           size, oc))

\* Icon::file_for_size_filtered
file_for_size_filtered(files, size, filter, oc) ==
    size_resolution(files, Indices(files, LAMBDA f : passes(filter, f)), size, oc)

\* The u16 product size * scale: it panics with overflow checks, else it wraps.
scaled_size(size, scale) == (size * scale) % U16Mod

\* The last pass of file_for_size_scaled: no filter, and unwrap.
unfiltered_pass(r) == IF r.tag = "None" THEN Panic ELSE r

\* The second pass of file_for_size_scaled and what follows it.
second_pass(files, size, scale, oc, r) ==
    IF r.tag = "None"
    THEN unfiltered_pass(file_for_size_filtered(files, size, NoFilter, oc))
    ELSE r

\* What follows the first pass of file_for_size_scaled.
first_pass(files, size, scale, oc, r) ==
    IF r.tag # "None" THEN r
    ELSE IF size * scale > U16Max /\ oc THEN Panic
    ELSE second_pass(files, size, scale, oc,
                     file_for_size_filtered(files, scaled_size(size, scale),
                                            ScaleIs(1), oc))

\* Icon::file_for_size_scaled
file_for_size_scaled(files, size, scale, oc) ==
    first_pass(files, size, scale, oc,
               file_for_size_filtered(files, size, ScaleIs(scale), oc))

\* Icon::file_for_size
file_for_size(files, size, oc) == file_for_size_scaled(files, size, 1, oc)


(***************************************************************************)
(* The size matcher at work on bounded Icons.                              *)
(***************************************************************************)

\* The most directories an Icon of the matcher's specification has files in.
MaxDirs == 3

\* The directories those Icons draw from.
S1   == IconDir("1x1", 1, 1, "Threshold", None)
S16  == IconDir("16x16", 16, 1, "Threshold", None)
S32  == IconDir("32x32", 32, 1, "Threshold", None)
S48  == IconDir("48x48", 48, 1, "Threshold", Some(4))
F32  == IconDir("32x32f", 32, 1, "Fixed", Some(16))
C64  == IconDir("scalable", 64, 1, "Scalable", Some(20))
S32x2 == IconDir("32x32@2", 32, 2, "Threshold", None)
T30  == IconDir("30x30", 30, 1, "Threshold", None)

SizeDirs == {S1, S16, T30, S32, S48, F32, C64, S32x2}

\* The files of the theme at r1/T that the icon "folder" has in the
\* directories dirs when each holds it in the file types tys: what
\* IconTheme::entries yields there.
RECURSIVE FilesIn(_, _)
FilesIn(dirs, tys) ==
    IF dirs = <<>> THEN <<>>
    ELSE [k \in 1..Len(tys) |->
             [dir_info |-> Head(dirs),
              path |-> <<"r1", "T", Head(dirs).path, <<"folder", tys[k]>>>>,
              icon_type |-> tys[k]]]
         \o FilesIn(Tail(dirs), tys)

\* The Icons load_icon can return for such themes.
Icons ==
    {[icon_name |-> <<"folder">>, theme_name |-> "T", files |-> FilesIn(dirs, tys)] :
        dirs \in UNION {[1..n -> SizeDirs] : n \in 1..MaxDirs},
        tys \in {<<"png">>, <<"png", "svg">>}}

ReqSizes == {1, 3, 16, 32, 46, 64, 512}

ReqScales == {1, 2, 128}

Filters == {NoFilter, ScaleIs(1), ScaleIs(2), TypeIs("svg")}

\* The record of a selection: the call and what it returned.  A behaviour of
\* SizeSpec is one selection on one Icon: the Icon is immutable and a selection
\* reads nothing else.
Selected(op, size, scale, filter, out) ==
    [op |-> op, size |-> size, scale |-> scale, filter |-> filter, out |-> out]

InitSize ==
    /\ world = [inhA |-> <<"B">>, inhB |-> <<>>, at |-> {}]
    /\ theme_name = "hicolor"
    /\ fallback_theme_name = "hicolor"
    /\ theme_name_provider = User("hicolor")
    /\ theme_cache = EmptyThemeCache
    /\ icon_cache = EmptyIconCache
    /\ search_paths = System
    /\ pc = "idle"
    /\ icon_name = <<>>
    /\ searched_themes = <<>>
    /\ stack = <<>>
    /\ found = None
    /\ overflow_checks \in BOOLEAN
    /\ icon \in Icons
    /\ sel = None
    /\ threads = [th \in Threads |-> IdleThread]
    /\ probed = None
    /\ parsed = None

FileForSizeScaled(size, scale) ==
    /\ sel = None
    /\ sel' = Some(Selected("file_for_size_scaled", size, scale, NoFilter,
                            file_for_size_scaled(icon.files, size, scale,
                                                 overflow_checks)))
    /\ UNCHANGED <<world, overflow_checks, icon>>
    /\ UNCHANGED <<loader_vars, threads, file_vars>>

FileForSize(size) ==
    /\ sel = None
    /\ sel' = Some(Selected("file_for_size", size, 1, NoFilter,
                            file_for_size(icon.files, size, overflow_checks)))
    /\ UNCHANGED <<world, overflow_checks, icon>>
    /\ UNCHANGED <<loader_vars, threads, file_vars>>

FileForSizeFiltered(size, filter) ==
    /\ sel = None
    /\ sel' = Some(Selected("file_for_size_filtered", size, 0, filter,
                            file_for_size_filtered(icon.files, size, filter,
                                                   overflow_checks)))
    /\ UNCHANGED <<world, overflow_checks, icon>>
    /\ UNCHANGED <<loader_vars, threads, file_vars>>

NextSize ==
    \/ \E size \in ReqSizes, scale \in ReqScales : FileForSizeScaled(size, scale)
    \/ \E size \in ReqSizes : FileForSize(size)
    \/ \E size \in ReqSizes, filter \in Filters : FileForSizeFiltered(size, filter)

SizeSpec == InitSize /\ [][NextSize]_vars


(***************************************************************************)
(* Claims about the size matcher, checked under SizeSpec.                  *)
(***************************************************************************)

\* The last selection was made by the named operation.
Called(op) == sel # None /\ Unwrap(sel).op = op

\* The indices of the Icon's files that pass the filter.
Passing(filter) == {i \in 1..Len(icon.files) : passes(filter, icon.files[i])}

FileSize(i) == icon.files[i].dir_info.size

\* The requested size lies in the window [size - threshold, size + threshold]
\* of file i, in the integers.
InWindow(i, size) ==
    /\ icon.files[i].dir_info.size - threshold(icon.files[i].dir_info) <= size
    /\ size <= icon.files[i].dir_info.size + threshold(icon.files[i].dir_info)

\* The files the threshold rule may select for the requested size.
ThresholdMatches(filter, size) ==
    {i \in Passing(filter) :
        icon.files[i].dir_info.size_type = "Threshold" /\ InWindow(i, size)}

ExactMatches(filter, size) == {i \in Passing(filter) : FileSize(i) = size}

Min(S) == CHOOSE x \in S : \A y \in S : x <= y

Max(S) == CHOOSE x \in S : \A y \in S : x >= y

\* C5: for every Icon and every target size and scale, file_for_size_scaled
\* and file_for_size return a file of that Icon; they never fail or panic.
C5_SelectionNeverFails ==
    (Called("file_for_size_scaled") \/ Called("file_for_size"))
        => /\ Unwrap(sel).out.tag = "Some"
           /\ Unwrap(sel).out.i \in 1..Len(icon.files)

\* C6: in the size-resolution procedure, if a candidate passing the filter has
\* directory size equal to the requested size, the returned file passes the
\* filter and has directory size equal to the requested size, whatever the
\* threshold windows and sizes of the other candidates.
C6_ExactMatchWins ==
    /\ (Called("file_for_size_filtered")
        /\ ExactMatches(Unwrap(sel).filter, Unwrap(sel).size) # {})
           => /\ Unwrap(sel).out.tag = "Some"
              /\ Unwrap(sel).out.i \in ExactMatches(Unwrap(sel).filter, Unwrap(sel).size)
    /\ (Called("file_for_size_scaled")
        /\ ExactMatches(ScaleIs(Unwrap(sel).scale), Unwrap(sel).size) # {})
           => /\ Unwrap(sel).out.tag = "Some"
              /\ Unwrap(sel).out.i
                    \in ExactMatches(ScaleIs(Unwrap(sel).scale), Unwrap(sel).size)

\* C6, its case: an exact match was returned although an earlier candidate of
\* another size has a threshold window that contains the requested size.
C6_Witness ==
    /\ Called("file_for_size_filtered")
    /\ Unwrap(sel).out.tag = "Some"
    /\ Unwrap(sel).out.i \in ExactMatches(Unwrap(sel).filter, Unwrap(sel).size)
    /\ \E j \in ThresholdMatches(Unwrap(sel).filter, Unwrap(sel).size) :
          j < Unwrap(sel).out.i /\ FileSize(j) # Unwrap(sel).size

\* C7: in the size-resolution procedure, when no candidate has the exact
\* requested size, the result is the first candidate in candidate order that
\* is of type Threshold and whose window [size - threshold, size + threshold]
\* contains the requested size, if there is one.
C7_FirstThresholdMatch ==
    (Called("file_for_size_filtered")
     /\ ExactMatches(Unwrap(sel).filter, Unwrap(sel).size) = {}
     /\ ThresholdMatches(Unwrap(sel).filter, Unwrap(sel).size) # {})
        => /\ Unwrap(sel).out.tag = "Some"
           /\ Unwrap(sel).out.i = Min(ThresholdMatches(Unwrap(sel).filter, Unwrap(sel).size))

\* C8: in the size-resolution procedure, when there is neither an exact match
\* nor a threshold match, the result has the smallest directory size strictly
\* greater than the requested size if a candidate is larger, and otherwise the
\* largest directory size among the candidates.
C8_SmallestLargerElseLargest ==
    (Called("file_for_size_filtered")
     /\ Passing(Unwrap(sel).filter) # {}
     /\ ExactMatches(Unwrap(sel).filter, Unwrap(sel).size) = {}
     /\ ThresholdMatches(Unwrap(sel).filter, Unwrap(sel).size) = {})
        => /\ Unwrap(sel).out.tag = "Some"
           /\ Unwrap(sel).out.i \in Passing(Unwrap(sel).filter)
           /\ FileSize(Unwrap(sel).out.i) =
                 IF \E i \in Passing(Unwrap(sel).filter) : FileSize(i) > Unwrap(sel).size
                 THEN Min({FileSize(i) : i \in {j \in Passing(Unwrap(sel).filter) :
                                                   FileSize(j) > Unwrap(sel).size}})
                 ELSE Max({FileSize(i) : i \in Passing(Unwrap(sel).filter)})

\* C9: if at least one file of the Icon has scale equal to the target scale,
\* file_for_size_scaled returns a file whose scale equals the target scale,
\* namely the size-resolution result for the target size over the files of
\* that scale.
C9_TargetScaleFirst ==
    (Called("file_for_size_scaled") /\ Passing(ScaleIs(Unwrap(sel).scale)) # {})
        => /\ Unwrap(sel).out.tag = "Some"
           /\ Unwrap(sel).out.i \in Passing(ScaleIs(Unwrap(sel).scale))
           /\ Unwrap(sel).out = file_for_size_filtered(icon.files, Unwrap(sel).size,
                                                       ScaleIs(Unwrap(sel).scale),
                                                       overflow_checks)

\* C10: if no file of the Icon has the target scale, file_for_size_scaled
\* returns the size-resolution result for size = targetSize x targetScale over
\* the scale-1 files when a scale-1 file exists, and otherwise the
\* size-resolution result for the target size over all files.
C10_ScaledSizeThenUnfiltered ==
    (Called("file_for_size_scaled") /\ Passing(ScaleIs(Unwrap(sel).scale)) = {})
        => /\ Unwrap(sel).out.tag = "Some"
           /\ Unwrap(sel).out =
                 IF Passing(ScaleIs(1)) # {}
                 THEN file_for_size_filtered(icon.files,
                                             Unwrap(sel).size * Unwrap(sel).scale,
                                             ScaleIs(1), overflow_checks)
                 ELSE file_for_size_filtered(icon.files, Unwrap(sel).size, NoFilter,
                                             overflow_checks)


(***************************************************************************)
(* Claims about load_icon, checked under Spec and FairSpec.  A theme is    *)
(* named by a non-empty name: the empty name names no theme (find_icon     *)
(* and theme_exists turn it away before anything is resolved).             *)
(***************************************************************************)

\* The call of load_icon in progress is never preempted for good.
FairSpec ==
    Spec /\ WF_vars(FindIconStep \/ FindIconFallback \/ FindIconExhausted
                       \/ LoadIconReturn)

\* The chain of a theme name over the search roots now configured.
Chain(t) == find(world, t, paths(search_paths))

\* The chain's full candidate set for an icon name.
Candidates(t, n) == flat_entries(world, Chain(t), n, 1)

\* The themes among the parents of theme t: declared ones and "hicolor".
ParentThemes(t) == Range(Chain(t).parents) \ {""}

RECURSIVE Closure(_)
Closure(S) ==
    IF (UNION {ParentThemes(t) : t \in S}) \subseteq S THEN S
    ELSE Closure(S \cup UNION {ParentThemes(t) : t \in S})

\* The themes reachable from the primary or the fallback theme through
\* parent lists.
Reachable == Closure({theme_name, fallback_theme_name} \ {""})

\* Some reachable theme has a candidate file for the icon name n.
SomeCandidate(n) == \E t \in Reachable : Candidates(t, n) # <<>>

\* The work-queue lookup: pop the front; a name already seen (or one that
\* names no theme) is discarded; the first chain with candidates wins; else
\* the chain's parents go to the front of the queue in declared order.
RECURSIVE QueueLookup(_, _, _)
QueueLookup(queue, seen, n) ==
    IF queue = <<>> THEN None
    ELSE IF Head(queue) \in seen \/ Head(queue) = ""
    THEN QueueLookup(Tail(queue), seen, n)
    ELSE IF Candidates(Head(queue), n) # <<>>
    THEN Some([icon_name |-> n, theme_name |-> Head(queue),
               files |-> Candidates(Head(queue), n)])
    ELSE QueueLookup(Chain(Head(queue)).parents \o Tail(queue),
                     seen \cup {Head(queue)}, n)

\* The icon names with an entry in the icon cache.
CachedNames == {n \in IconNames : icon_cache[n] # None}

\* C1: for every non-empty icon name and every configuration, load_icon
\* succeeds if and only if some theme reachable from the primary or the
\* fallback theme through parent lists has a candidate file for the name, and
\* fails with IconNotFound otherwise; this holds of the result a search is
\* about to return and of every result the icon cache returns.
C1_FoundIffReachableCandidate ==
    /\ (pc = "return" /\ icon_name # <<>>)
          => /\ (load_icon_result(found).tag = "Ok") <=> SomeCandidate(icon_name)
             /\ (load_icon_result(found).tag = "Err")
                   => load_icon_result(found).v = "IconNotFound"
    /\ \A n \in CachedNames \ {<<>>} :
          (load_icon_result(Unwrap(icon_cache[n])).tag = "Ok") <=> SomeCandidate(n)

\* C1, its case: a search succeeds in a theme other than the primary one after
\* a theme with an empty chain was met and skipped.
C1_Witness ==
    /\ pc = "return"
    /\ found # None
    /\ Unwrap(found).theme_name # theme_name
    /\ \E i \in 1..Len(searched_themes) : is_empty(Chain(searched_themes[i]))

\* A and B inherit each other and the icon lies in "hicolor" alone.
MutualInheritance(n) ==
    /\ Contains(Chain("A").parents, "B")
    /\ Contains(Chain("B").parents, "A")
    /\ theme_name \in {"A", "B"}
    /\ Candidates("A", n) = <<>>
    /\ Candidates("B", n) = <<>>
    /\ Candidates("hicolor", n) # <<>>

\* C2: every load_icon call terminates, whatever the inheritance graph
\* (mutual inheritance, self-inheritance), and with A and B inheriting each
\* other a name present only in "hicolor" is found there.
C2_LoadIconTerminates ==
    /\ (pc # "idle") ~> (pc = "idle")
    /\ []((pc = "return" /\ MutualInheritance(icon_name))
             => (found # None /\ Unwrap(found).theme_name = "hicolor"))

\* C2, its case: a search over A and B, which inherit each other, has ended.
C2_Witness ==
    /\ pc = "return"
    /\ MutualInheritance(icon_name)
    /\ Contains(searched_themes, "A")
    /\ Contains(searched_themes, "B")
    /\ found # None

\* C3: the Icon load_icon returns is the one the work-queue lookup returns
\* for the queue [primary, fallback] with parents pushed to the front: its
\* theme is the first in priority-first order that has a matching file.
C3_PriorityFirstOrder ==
    /\ pc = "return"
          => found = QueueLookup(<<theme_name, fallback_theme_name>>, {}, icon_name)
    /\ \A n \in CachedNames :
          Unwrap(icon_cache[n])
             = QueueLookup(<<theme_name, fallback_theme_name>>, {}, n)

\* C3, its case: the icon lies in several reachable themes and the one found
\* is a parent of the primary theme that is not its last declared parent.
C3_Witness ==
    /\ pc = "return"
    /\ found # None
    /\ Unwrap(found).theme_name # theme_name
    /\ Unwrap(found).theme_name # fallback_theme_name
    /\ \E t \in Reachable \ {Unwrap(found).theme_name} : Candidates(t, icon_name) # <<>>

\* The Icon's files are those of one theme, and all of its candidates.
OneThemeAllCandidates(ic) ==
    /\ ic.files = Candidates(ic.theme_name, ic.icon_name)
    /\ \A i \in 1..Len(ic.files) : ic.files[i].path[2] = ic.theme_name

\* C4: every file of an Icon returned by load_icon belongs to the theme named
\* by the Icon's theme_name, and the file list is exactly that chain's full
\* candidate set for the icon name.
C4_FilesOfOneTheme ==
    /\ (pc = "return" /\ found # None) => OneThemeAllCandidates(Unwrap(found))
    /\ \A n \in CachedNames :
          Unwrap(icon_cache[n]) # None
             => OneThemeAllCandidates(Unwrap(Unwrap(icon_cache[n])))

\* C4, its case: an Icon was found whose theme has files at two search roots
\* while another reachable theme has the icon too.
C4_Witness ==
    /\ pc = "return"
    /\ found # None
    /\ \E i, j \in 1..Len(Unwrap(found).files) :
          Unwrap(found).files[i].path[1] # Unwrap(found).files[j].path[1]
    /\ \E t \in Reachable \ {Unwrap(found).theme_name} : Candidates(t, icon_name) # <<>>


(***************************************************************************)
(* Claims about the theme cache and the icon cache.                        *)
(***************************************************************************)

\* C11: once a theme name has an entry in the theme cache, a resolve of that
\* name that reads the cache returns the stored chain as its next step, builds
\* no chain (IconThemes::find, the only reader of the file system, is not
\* entered) and leaves the cache as it is.
C11_StoredChainIsReturned ==
    [][\A th \in Threads :
          (/\ threads[th].pc = "get"
           /\ theme_cache[threads[th].name] # None
           /\ threads'[th] # threads[th])
             => /\ threads'[th].pc = "done"
                /\ threads'[th].themes = theme_cache[threads[th].name]
                /\ threads'[th].new_themes = None
                /\ ~threads'[th].built
                /\ theme_cache' = theme_cache]_vars

\* C11, its case: a thread is resolving a name that an earlier resolve has
\* stored, and has reached the read of the cache.
C11_Witness ==
    \E th \in Threads :
       /\ threads[th].pc = "get"
       /\ theme_cache[threads[th].name] # None
       /\ \A o \in Threads \ {th} : threads[o].pc = "idle"

\* The configuration a lookup depends on.
Config == <<theme_name, fallback_theme_name, search_paths>>

\* C12: with no configuration change in between, a second load_icon call for
\* a name returns what the first returned, positive or negative, and performs
\* no theme traversal and no file system access: the first call stores the
\* result it returns, the entry stays as it is while the configuration does,
\* and a search is entered only for a name without an entry.
C12_SecondCallFromCache ==
    [][/\ pc = "return" => icon_cache'[icon_name] = Some(found)
       /\ \A n \in IconNames :
             (icon_cache[n] # None /\ Config' = Config)
                => icon_cache'[n] = icon_cache[n]
       /\ (pc = "idle" /\ pc' # "idle") => icon_cache[icon_name'] = None]_vars

\* C12, its case: a search has ended without a match, its result is stored and
\* the loader is ready for the second call.
C12_Witness ==
    /\ pc = "idle"
    /\ icon_cache[<<"folder">>] = Some(None)
    /\ theme_cache # EmptyThemeCache

\* C13: after any sequence of lookups, theme_exists calls and setter calls,
\* every chain stored in the theme cache equals the chain that building the
\* same theme name against the search roots now configured produces.
C13_StoredChainsAreCurrent ==
    \A n \in ThemeNames :
       theme_cache[n] # None
          => Unwrap(theme_cache[n]) = find(world, n, paths(search_paths))

\* C13, its case: the search roots were changed and theme A is stored with a
\* chain that differs from the one the first roots gave.
C13_Witness ==
    /\ search_paths # System
    /\ theme_cache["A"] # None
    /\ Unwrap(theme_cache["A"]) # find(world, "A", paths(System))
    /\ icon_cache # EmptyIconCache

\* C14: the setter for the search roots and the setter for the fallback theme
\* name each empty the whole theme cache when called with a value different
\* from the current one.
C14_SettersEmptyThemeCache ==
    [][(search_paths' # search_paths \/ fallback_theme_name' # fallback_theme_name)
          => theme_cache' = EmptyThemeCache]_vars

\* C14, as amended: set_search_paths with a different value empties the theme
\* cache and the icon cache; set_fallback_theme_name with a different value
\* empties the icon cache and leaves the theme cache as it is.
C14_SetterInvalidation ==
    [][/\ search_paths' # search_paths
          => (theme_cache' = EmptyThemeCache /\ icon_cache' = EmptyIconCache)
       /\ fallback_theme_name' # fallback_theme_name
          => (icon_cache' = EmptyIconCache /\ theme_cache' = theme_cache)]_vars

\* C14, its case: the fallback theme name was changed after lookups, the icon
\* cache is empty and the theme cache still holds chains.
C14_Witness ==
    /\ pc = "idle"
    /\ fallback_theme_name = "B"
    /\ search_paths = System
    /\ icon_cache = EmptyIconCache
    /\ theme_cache["A"] # None
    /\ theme_cache["hicolor"] # None

\* The threads whose call resolves the theme name n, and those among them
\* that have not yet returned from load_themes.
Resolving(n) == {th \in Threads : threads[th].pc # "idle" /\ threads[th].name = n}

Unfinished(n) == {th \in Resolving(n) : threads[th].pc # "done"}

\* C15: when several threads resolve the same theme name concurrently, once
\* all of them have finished the theme cache holds one entry for the name and
\* every chain returned to a caller equals the stored one.
C15_RacingBuildersAgree ==
    \A n \in ThemeNames \ {""} :
       (Resolving(n) # {} /\ Unfinished(n) = {})
          => /\ theme_cache[n] # None
             /\ \A th \in Resolving(n) : threads[th].themes = theme_cache[n]

\* C15, its case: two threads missed the cache for the same name, each built a
\* chain, and both have finished.
C15_Witness ==
    /\ Resolving("A") = Threads
    /\ Unfinished("A") = {}
    /\ \A th \in Threads : threads[th].built

CachesCurrent ==
    /\ \A n \in ThemeNames :
          theme_cache[n] # None => Unwrap(theme_cache[n]) = Chain(n)
    /\ \A n \in CachedNames :
          Unwrap(icon_cache[n])
             = QueueLookup(<<theme_name, fallback_theme_name>>, {}, n)

\* C17: a lookup sees one configuration for its whole duration, the one
\* before or the one after a change: the configuration changes only while no
\* lookup is in flight; and once the change has completed no entry of the
\* caches, chain or lookup result, reflects the configuration before it.
C17_ChangesAreExclusive ==
    [][Config' # Config
          => /\ pc = "idle" /\ pc' = "idle"
             /\ \A th \in Threads : threads[th].pc = "idle"
             /\ CachesCurrent']_vars

\* C17, its case: theme name, fallback name and search roots have all been
\* changed and the caches hold a chain and a lookup result again.
C17_Witness ==
    /\ pc = "idle"
    /\ theme_name # "hicolor"
    /\ fallback_theme_name # "hicolor"
    /\ search_paths # System
    /\ theme_cache # EmptyThemeCache
    /\ icon_cache[<<"folder">>] # None

\* How often x occurs in seq.
Count(seq, x) == Cardinality({i \in 1..Len(seq) : seq[i] = x})

\* Some index of theme n loaded from the search roots declares "hicolor".
DeclaresHicolor(n) ==
    \E i \in 1..Len(paths(search_paths)) :
       /\ IndexFile(world, paths(search_paths)[i], n).kind = "Index"
       /\ Contains(IndexFile(world, paths(search_paths)[i], n).inherits, "hicolor")

\* The parent list of chain c of theme n holds "hicolor" once, and last when
\* no index declared it.
HicolorOnce(c, n) ==
    /\ Count(c.parents, "hicolor") = 1
    /\ ~DeclaresHicolor(n) => c.parents[Len(c.parents)] = "hicolor"

\* C18: the parent list of every chain that chain resolution produces
\* contains "hicolor" exactly once, appended last when no index declared it:
\* also for a theme found in no search root, for a theme whose index has no
\* Inherits key and for "hicolor" itself.  Chain resolution is
\* IconThemes::find, of which the repository holds two.
C18_HicolorExactlyOnce ==
    \A n \in ThemeNames :
       /\ HicolorOnce(find(world, n, paths(search_paths)), n)
       /\ HicolorOnce(lib_find(world, n, paths(search_paths)), n)


\* C19: theme_exists(name) returns true exactly when resolving name against
\* the current search roots yields a chain with at least one loaded
\* ThemeIndex; for a theme found in no root and for the empty name it returns
\* false.  It returns a bool in every case, never an error.  Stated of every
\* finished call of a thread and of the call on the loader at rest.
C19_ThemeExistsIffLoadedIndex ==
    /\ \A th \in Threads :
          threads[th].pc = "done" =>
             /\ threads[th].result \in BOOLEAN
             /\ threads[th].name # "" =>
                   threads[th].result = (Len(Chain(threads[th].name).themes) >= 1)
             /\ threads[th].name = "" => threads[th].result = FALSE
    /\ \A t \in ThemeNames :
          theme_exists(world, search_paths, theme_cache, t).exists
             = (t # "" /\ Len(Chain(t).themes) >= 1)

\* One call has answered true for a theme with a loaded index while another
\* has answered false for a theme that is in no current search root.
C19_Witness ==
    /\ threads[1].pc = "done" /\ threads[1].name = "A" /\ threads[1].result
    /\ threads[2].pc = "done" /\ threads[2].name = "B" /\ ~threads[2].result
    /\ \A i \in 1..Len(paths(search_paths)) :
          IndexFile(world, paths(search_paths)[i], "B").kind # "Index"

\* C20: update_theme_name returns the error ThemeNotFound whenever the theme
\* with the name the provider returns cannot be found in the current search
\* roots, and the current theme name is then left unchanged.  Stated of the
\* call on every loader at rest.
C20_UpdateReportsThemeNotFound ==
    Exclusive /\ provider_theme_name(theme_name_provider).tag = "Ok"
              /\ ~theme_exists(world, search_paths, EmptyThemeCache,
                               provider_theme_name(theme_name_provider).v).exists
    => /\ update_theme_name(world, search_paths, theme_name_provider, theme_name,
                            theme_cache, icon_cache).result
             = Err(theme_not_found(provider_theme_name(theme_name_provider).v))
       /\ update_theme_name(world, search_paths, theme_name_provider, theme_name,
                            theme_cache, icon_cache).theme_name = theme_name

(***************************************************************************)
(* Claims about the theme-name provider.                                   *)
(***************************************************************************)

\* C21: when the theme-name provider fails, update_theme_name returns the
\* provider's error wrapped in the ThemeNameProvider variant, and the theme
\* name, the theme cache and the icon cache it leaves are the ones it found;
\* the fallback theme name and the search roots are not among the fields it
\* writes.  Stated of the call on every loader at rest.
C21_ProviderErrorIsWrapped ==
    Exclusive /\ provider_theme_name(theme_name_provider).tag = "Err"
    => With(update_theme_name(world, search_paths, theme_name_provider, theme_name,
                              theme_cache, icon_cache),
            LAMBDA u :
               /\ u.result.tag = "Err"
               /\ u.result.v.variant = "ThemeNameProvider"
               /\ u.result.v.source = provider_theme_name(theme_name_provider).v
               /\ u.theme_name = theme_name
               /\ u.theme_cache = theme_cache
               /\ u.icon_cache = icon_cache
               /\ DOMAIN u = {"result", "theme_name", "theme_cache", "icon_cache"})

\* A loader at rest whose provider fails, with a theme name that an earlier
\* update set and with entries in both caches.
C21_Witness ==
    /\ Exclusive
    /\ theme_name_provider = CustomFailing
    /\ theme_name = "A"
    /\ theme_cache # EmptyThemeCache
    /\ icon_cache # EmptyIconCache

\* The stored provider gives the theme name t.
Provides(t) ==
    /\ provider_theme_name(theme_name_provider).tag = "Ok"
    /\ provider_theme_name(theme_name_provider).v = t

\* C22: set_theme_name_provider changes only the stored provider: a step that
\* changes the provider leaves the theme name, the fallback name, the search
\* roots and both caches as they are; the theme name changes only in a step
\* of update_theme_name that succeeds, and then to the name the provider
\* gives; and what load_icon returns is computed from the current theme name,
\* whatever the stored provider names.
C22_ProviderTakesEffectOnUpdate ==
    /\ [][/\ theme_name_provider' # theme_name_provider
             => UNCHANGED <<theme_name, fallback_theme_name, search_paths,
                            theme_cache, icon_cache>>
          /\ theme_name' # theme_name
             => /\ theme_name_provider' = theme_name_provider
                /\ Provides(theme_name')
                /\ update_theme_name(world, search_paths, theme_name_provider,
                                     theme_name, theme_cache, icon_cache).result = Ok(<<>>)
         ]_vars
    /\ []((pc = "return" /\ ~Provides(theme_name))
             => found = QueueLookup(<<theme_name, fallback_theme_name>>, {}, icon_name))

\* A loader at rest whose provider names another theme than the current one,
\* a theme that exists, with a lookup result in the icon cache.
C22_Witness ==
    /\ Exclusive
    /\ theme_name_provider = User("A")
    /\ theme_name = "hicolor"
    /\ ~is_empty(Chain("A"))
    /\ \E n \in CachedNames : n # <<>>

(***************************************************************************)
(* Claims about Icons and candidate paths.                                 *)
(***************************************************************************)

\* An Icon with a name, a theme name and a file.
WellFormed(ic) ==
    /\ ic.icon_name # <<>>
    /\ ic.theme_name # ""
    /\ ic.files # <<>>

\* The file lists Icon::new is tried with: none, and the candidates of the
\* themes on disk.
FileLists == {<<>>} \cup {Candidates(t, <<"folder">>) : t \in ThemeNames}

\* C23: every Icon that exists, whether load_icon is about to return it or
\* the icon cache holds it, has a non-empty icon name, a non-empty theme name
\* and a non-empty file list; and Icon::new yields no value exactly when one
\* of the three is empty.
C23_IconsAreWellFormed ==
    /\ (pc = "return" /\ found # None) => WellFormed(Unwrap(found))
    /\ \A n \in CachedNames :
          Unwrap(icon_cache[n]) # None => WellFormed(Unwrap(Unwrap(icon_cache[n])))
    /\ \A n \in IconNames, t \in ThemeNames, fs \in FileLists :
          /\ (n = <<>> \/ t = "" \/ fs = <<>>) <=> Icon_new(n, t, fs) = None
          /\ Icon_new(n, t, fs) # None => WellFormed(Unwrap(Icon_new(n, t, fs)))

\* An Icon is held in the icon cache beside the negative entry of the empty
\* icon name, while the fallback theme is the empty name.
C23_Witness ==
    /\ icon_cache[<<"folder">>] # None
    /\ Unwrap(icon_cache[<<"folder">>]) # None
    /\ icon_cache[<<>>] = Some(None)
    /\ fallback_theme_name = ""

\* The file name of an icon name and a file type: the full name, a dot, the
\* extension.
FullName(name, ext) == Append(name, ext)

\* C24: for every icon name, names with dots among them, every path
\* entries probes for a directory and a file type is
\* content_dir/dir_path/icon_name.ext: the full icon name, a dot and the
\* extension; and entries probes one path for every directory and file type.
C24_FullNameIsProbed ==
    probed # None =>
       /\ Unwrap(probed).icon_name # <<>>
             => Len(Unwrap(probed).paths)
                   = Len(Unwrap(probed).theme.key_list) * Len(types)
       /\ \A i \in 1..Len(Unwrap(probed).paths) :
             /\ SubSeq(Unwrap(probed).paths[i], 1, 2) = Unwrap(probed).theme.content_dir
             /\ \E k \in 1..Len(Unwrap(probed).theme.key_list) :
                   Unwrap(probed).paths[i][3] = Unwrap(probed).theme.key_list[k].path
             /\ \E e \in Range(types) :
                   Unwrap(probed).paths[i][4] = FullName(Unwrap(probed).icon_name, e)

\* C25: within one load_icon call no theme name is resolved and searched more
\* than once, whether it is met as a parent or as the fallback theme: the
\* Vec of the themes find_icon was entered for never holds a name twice.
C25_NoThemeSearchedTwice ==
    \A i, j \in 1..Len(searched_themes) :
       searched_themes[i] = searched_themes[j] => i = j

\* find_icon run from the state c of one of its steps to its return.
RECURSIVE find_icon_run(_, _)
find_icon_run(c, name) ==
    IF c.found # None \/ c.stack = <<>> THEN c
    ELSE With(find_icon_loop(world, search_paths, c.cache, name, c.searched, c.stack),
              LAMBDA c1 : find_icon_run(c1, name))

\* The lookup of load_icon with the icon cache bypassed and no chain stored:
\* find_icon from the current theme, or else from the fallback theme.
load_icon_bypassing(name) ==
    With(find_icon_run(find_icon_enter(world, search_paths, EmptyThemeCache, theme_name,
                                       name, <<>>, <<>>), name),
         LAMBDA p :
            IF p.found # None THEN p.found
            ELSE find_icon_run(find_icon_enter(world, search_paths, p.cache,
                                               fallback_theme_name, name, p.searched,
                                               <<>>), name).found)

\* C26: after any sequence of load_icon, theme_exists, set_search_paths,
\* set_fallback_theme_name, set_theme_name_provider and update_theme_name
\* calls on unchanged data, every entry of the icon cache, positive or
\* negative, equals the result of a lookup of that name that bypasses the
\* caches, under the current theme, fallback theme and search roots.
C26_IconCacheIsCurrent ==
    \A n \in CachedNames : Unwrap(icon_cache[n]) = load_icon_bypassing(n)

\* Theme, fallback theme and search roots have all been changed; the icon
\* cache holds an Icon and, for the empty name, a negative entry.
C26_Witness ==
    /\ theme_name = "A"
    /\ fallback_theme_name = "B"
    /\ search_paths = Custom(<<"r2">>)
    /\ icon_cache[<<"folder">>] # None
    /\ Unwrap(icon_cache[<<"folder">>]) # None
    /\ icon_cache[<<>>] = Some(None)

(***************************************************************************)
(* Claims about chain building and the loading of an index.                *)
(***************************************************************************)

\* The index of theme n at root loads: root/n is a directory, it has an
\* index.theme that parses, and a directory of it has a size other than 0.
Loads(root, n) ==
    /\ IndexFile(world, root, n).kind = "Index"
    /\ \E i \in 1..Len(IndexFile(world, root, n).dirs) :
          IndexFile(world, root, n).dirs[i].size # 0

\* The current search roots at which theme n loads, in search-root order.
LoadingRoots(n) == SelectSeq(paths(search_paths), LAMBDA root : Loads(root, n))

\* The chain c of theme n has one ThemeIndex for each root at which n loads,
\* in search-root order.
OnePerLoadingRoot(c, n) ==
    /\ Len(c.themes) = Len(LoadingRoots(n))
    /\ \A i \in 1..Len(c.themes) : c.themes[i].content_dir = <<LoadingRoots(n)[i], n>>

\* C27: a chain's ThemeIndex list has one entry for every search root at
\* which the theme's index loads, in search-root order: a failure at one root
\* (not a directory, index missing, no valid directory) neither ends the scan
\* nor removes the entries of other roots, so that a theme split across roots
\* is pooled.  Stated of the chain of every name and of every stored chain.
C27_OneIndexPerLoadingRoot ==
    /\ \A n \in ThemeNames : OnePerLoadingRoot(Chain(n), n)
    /\ \A n \in ThemeNames :
          theme_cache[n] # None => OnePerLoadingRoot(Unwrap(theme_cache[n]), n)

\* The stored chain of A pools two roots, and the stored chain of B has the
\* entry of the second root although B is no directory in the first.
C27_Witness ==
    /\ theme_cache["A"] # None
    /\ Len(Unwrap(theme_cache["A"]).themes) = 2
    /\ theme_cache["B"] # None
    /\ IndexFile(world, paths(search_paths)[1], "B").kind = "NotDirectory"
    /\ Len(Unwrap(theme_cache["B"]).themes) = 1

\* Every ThemeIndex of chain c has a directory, and no directory of size 0.
UsableIndices(c) ==
    \A i \in 1..Len(c.themes) :
       /\ c.themes[i].key_list # <<>>
       /\ \A k \in 1..Len(c.themes[i].key_list) : c.themes[i].key_list[k].size # 0

\* C29: loading a ThemeIndex fails exactly when the content path is not a
\* directory, or its index.theme is missing, or no valid directory remains
\* after parsing, an index that does not parse counting as having none; so
\* every ThemeIndex of every chain, computed or stored, has a non-empty
\* directory list in which every directory has a size other than 0.
C29_LoadFailsExactlyWhenUnusable ==
    /\ \A root \in Roots, n \in ThemeNames :
          from_dir(world, <<root, n>>) = None
             <=> \/ IndexFile(world, root, n).kind = "NotDirectory"
                 \/ IndexFile(world, root, n).kind = "IndexNotFound"
                 \/ IndexFile(world, root, n).kind = "Unparsable"
                 \/ \A i \in 1..Len(IndexFile(world, root, n).dirs) :
                       IndexFile(world, root, n).dirs[i].size = 0
    /\ \A n \in ThemeNames : UsableIndices(Chain(n))
    /\ \A n \in ThemeNames : theme_cache[n] # None => UsableIndices(Unwrap(theme_cache[n]))

\* The chain of "hicolor" is stored with the one root whose index has a valid
\* directory, the directory of size 0 left out, while the index of the other
\* root, which has none, is not in it.
C29_Witness ==
    /\ search_paths = System
    /\ theme_cache["hicolor"] # None
    /\ Len(Unwrap(theme_cache["hicolor"]).themes) = 1
    /\ Len(Unwrap(theme_cache["hicolor"]).themes[1].key_list) = 1
    /\ IndexFile(world, "r2", "hicolor").kind = "Index"
    /\ IndexFile(world, "r2", "").kind = "Unparsable"

\* The Inherits items of the indices of theme n that load, root after root,
\* each index's items in declared order.
RECURSIVE DeclaredFrom(_, _)
DeclaredFrom(roots, n) ==
    IF roots = <<>> THEN <<>>
    ELSE IndexFile(world, Head(roots), n).inherits \o DeclaredFrom(Tail(roots), n)

Declared(n) == DeclaredFrom(LoadingRoots(n), n)

\* The items of seq in the order of their first occurrence, each once.
RECURSIVE FirstSeen(_)
FirstSeen(seq) ==
    IF seq = <<>> THEN <<>>
    ELSE IF seq[Len(seq)] \in Range(SubSeq(seq, 1, Len(seq) - 1))
    THEN FirstSeen(SubSeq(seq, 1, Len(seq) - 1))
    ELSE Append(FirstSeen(SubSeq(seq, 1, Len(seq) - 1)), seq[Len(seq)])

\* The parent list of chain c of theme n: the declared names of the indices
\* that load, first seen first and none twice, and "hicolor" after them
\* unless it is among them.
DeclaredParents(c, n) ==
    /\ c.parents = FirstSeen(Declared(n) \o <<"hicolor">>)
    /\ \A i, j \in 1..Len(c.parents) : c.parents[i] = c.parents[j] => i = j
    /\ Range(c.parents) \ {"hicolor"} \subseteq Range(Declared(n))

\* C28: a chain's parent list holds the parent names declared by the indices
\* that load, in first-seen order (root order, then declared order within an
\* index), with no name twice; a root whose index does not load, one that
\* declares Inherits but has no valid directory among them, contributes no
\* name.  Stated of the chain of every name and of every stored chain.
C28_ParentsOfLoadedIndices ==
    /\ \A n \in ThemeNames : DeclaredParents(Chain(n), n)
    /\ \A n \in ThemeNames :
          theme_cache[n] # None => DeclaredParents(Unwrap(theme_cache[n]), n)

\* The stored chain of A, pooled from two roots that both declare parents,
\* has each declared parent once although B is declared twice and "hicolor"
\* at both roots, and the stored chain of "hicolor" lacks B, which the index of the
\* second root declares without having a valid directory.
C28_Witness ==
    /\ search_paths = System
    /\ world.inhA = <<"hicolor", "B", "B">>
    /\ theme_cache["A"] # None
    /\ IndexFile(world, "r2", "A").inherits = <<"hicolor">>
    /\ Len(Unwrap(theme_cache["A"]).themes) = 2
    /\ Unwrap(theme_cache["A"]).parents = <<"hicolor", "B">>
    /\ theme_cache["hicolor"] # None
    /\ IndexFile(world, "r2", "hicolor").inherits = <<"B">>
    /\ Unwrap(theme_cache["hicolor"]).parents = <<"hicolor">>

(***************************************************************************)
(* Claims about the parsing of a directory section, checked under          *)
(* ParseSpec.                                                              *)
(***************************************************************************)

\* The positions of section p whose key is k and whose value is a u16.
Numbers(p, k) == {i \in 1..Len(p) : p[i][1] = k /\ parse_u16(p[i][2]) # None}

\* The number that the last such property of p gives, or else the default.
LastNumber(p, k, default) ==
    IF Numbers(p, k) = {} THEN default
    ELSE Unwrap(parse_u16(p[Max(Numbers(p, k))][2]))

\* The positions of section p whose key is Type.
Types(p) == {i \in 1..Len(p) : p[i][1] = "Type"}

\* The size type the last Type property of p names, Threshold for a value
\* that is neither Fixed nor Scalable and for a section without the key.
LastType(p) ==
    IF Types(p) = {} THEN "Threshold"
    ELSE IF p[Max(Types(p))][2] = TFixed THEN "Fixed"
    ELSE IF p[Max(Types(p))][2] = TScalable THEN "Scalable"
    ELSE "Threshold"

KnownKeys == {"Size", "Scale", "Context", "Type", "Threshold", "MinSize", "MaxSize"}

\* C30: parsing a directory section never fails the enclosing index: it
\* always yields a directory, in which a numeric value that does not parse
\* has changed nothing, so that a field no value was parsed for is at its
\* default (scale 1, threshold 2, min_size = max_size = size); a Type value
\* that is not recognised yields Threshold; unknown keys are ignored; and a
\* directory whose Size is absent, unparsable or 0 is invalid and left out of
\* the ThemeIndex, whose other directories stay.
C30_SectionParsingNeverFails ==
    parsed # None =>
       With(Unwrap(parsed),
            LAMBDA r :
               /\ r.dir_info.path = "dir"
               /\ r.dir_info.size = LastNumber(r.properties, "Size", 0)
               /\ r.dir_info.scale = LastNumber(r.properties, "Scale", 1)
               /\ threshold(r.dir_info) = LastNumber(r.properties, "Threshold", 2)
               /\ min_size(r.dir_info)
                     = LastNumber(r.properties, "MinSize", r.dir_info.size)
               /\ max_size(r.dir_info)
                     = LastNumber(r.properties, "MaxSize", r.dir_info.size)
               /\ r.dir_info.size_type = LastType(r.properties)
               /\ r.dir_info
                     = IconDir_new("dir", SelectSeq(r.properties,
                                                    LAMBDA kv : kv[1] \in KnownKeys))
               /\ is_valid(r.dir_info) <=> LastNumber(r.properties, "Size", 0) # 0
               /\ r.key_list = IF LastNumber(r.properties, "Size", 0) # 0
                               THEN <<r.dir_info, D16>> ELSE <<D16>>)

\* A section whose Size does not fit a u16 and whose Type is not recognised
\* was parsed: its directory is of type Threshold and is left out.
C30_Witness ==
    /\ parsed # None
    /\ Unwrap(parsed).properties = <<<<"Size", VOver>>, <<"Type", TLower>>>>
    /\ Unwrap(parsed).dir_info.size_type = "Threshold"
    /\ Unwrap(parsed).key_list = <<D16>>

(***************************************************************************)
(* Claims about the candidate list of a chain.                             *)
(***************************************************************************)

\* The position of x in seq, 0 if it is not there.
Position(seq, x) ==
    IF Contains(seq, x) THEN Min({i \in 1..Len(seq) : seq[i] = x}) ELSE 0

\* The valid directories of theme t at root, in index order.
ValidDirs(root, t) == SelectSeq(IndexFile(world, root, t).dirs, LAMBDA d : d.size # 0)

\* The place of candidate file f of theme t in the order of the claim: its
\* search root, its directory in the index, its file type.
Place(f, t) ==
    <<Position(LoadingRoots(t), f.path[1]),
      Position(ValidDirs(f.path[1], t), f.dir_info),
      Position(types, f.icon_type)>>

\* Place a comes before place b.
Before(a, b) ==
    \/ a[1] < b[1]
    \/ a[1] = b[1] /\ a[2] < b[2]
    \/ a[1] = b[1] /\ a[2] = b[2] /\ a[3] < b[3]

\* The paths on disk that are candidates of icon name n in theme t: a loading
\* root, the theme, a valid directory, the full name with a file type.
CandidatePaths(t, n) ==
    {f \in Files(world) :
        /\ Contains(LoadingRoots(t), f[1])
        /\ f[2] = t
        /\ \E k \in 1..Len(ValidDirs(f[1], t)) : ValidDirs(f[1], t)[k].path = f[3]
        /\ \E e \in Range(types) : f[4] = FullName(n, e)}

\* The candidate list es of icon name n in theme t is as claimed.
OrderedExisting(es, t, n) ==
    /\ n = <<>> => es = <<>>
    /\ n # <<>> => {es[i].path : i \in 1..Len(es)} = CandidatePaths(t, n)
    /\ \A i \in 1..Len(es) :
          /\ es[i].path[3] = es[i].dir_info.path
          /\ es[i].path[4] = FullName(n, es[i].icon_type)
          /\ \A k \in 1..3 : Place(es[i], t)[k] # 0
    /\ \A i, k \in 1..Len(es) : i < k => Before(Place(es[i], t), Place(es[k], t))

\* C31: the candidate list of a chain for an icon name is ordered by
\* ThemeIndex (search-root order), then by directory in index order, then by
\* file type in the order png, svg, xpm, and holds exactly the candidate
\* paths that exist on disk; for the empty icon name it is empty.  Stated of
\* the chain of every theme name and of every icon name, names with dots
\* among them.
C31_CandidatesOrderedAndExisting ==
    \A t \in ThemeNames, n \in EntryNames :
       OrderedExisting(flat_entries(world, Chain(t), n, 1), t, n)

\* C31 for the icon names without a dot.
C31_ForUndottedNames ==
    \A t \in ThemeNames, n \in IconNames :
       OrderedExisting(flat_entries(world, Chain(t), n, 1), t, n)

(***************************************************************************)
(* Further claims about the size matcher, checked under SizeSpec.          *)
(***************************************************************************)

\* The files of the Icon that lie in the directory of file i.
SameDirectory(i) ==
    {j \in 1..Len(icon.files) : icon.files[j].dir_info = icon.files[i].dir_info}

\* C32: when an Icon has a file in a directory whose size equals the
\* requested size and whose scale equals the requested scale,
\* file_for_size_scaled returns a file from such a directory, and when that
\* directory holds the icon in several file types it returns the PNG one.
C32_SameSizeAndScaleAsPng ==
    (Called("file_for_size_scaled")
     /\ \E i \in 1..Len(icon.files) :
           /\ icon.files[i].dir_info.size = Unwrap(sel).size
           /\ icon.files[i].dir_info.scale = Unwrap(sel).scale)
        => /\ Unwrap(sel).out.tag = "Some"
           /\ icon.files[Unwrap(sel).out.i].dir_info.size = Unwrap(sel).size
           /\ icon.files[Unwrap(sel).out.i].dir_info.scale = Unwrap(sel).scale
           /\ (\E j \in SameDirectory(Unwrap(sel).out.i) :
                  icon.files[j].icon_type = "png")
                 => icon.files[Unwrap(sel).out.i].icon_type = "png"

\* C32, its case: the file returned for size 32 at scale 2 is the PNG file of
\* a directory of that size and scale which also holds an SVG file, and the
\* Icon has files of another scale before it.
C32_Witness ==
    /\ Called("file_for_size_scaled")
    /\ Unwrap(sel).size = 32 /\ Unwrap(sel).scale = 2
    /\ Unwrap(sel).out.tag = "Some"
    /\ icon.files[Unwrap(sel).out.i].dir_info = S32x2
    /\ icon.files[Unwrap(sel).out.i].icon_type = "png"
    /\ \E j \in SameDirectory(Unwrap(sel).out.i) : icon.files[j].icon_type = "svg"
    /\ Unwrap(sel).out.i > 1
    /\ icon.files[1].dir_info.scale = 1

\* The candidates among which the rule that selected file i chose: the
\* threshold matches if i was selected by the threshold rule, else all files
\* passing the filter.
RuleCandidates(filter, size, i) ==
    IF ExactMatches(filter, size) = {} /\ i \in ThresholdMatches(filter, size)
    THEN ThresholdMatches(filter, size)
    ELSE Passing(filter)

\* File i is the earliest of the rule's candidates with its directory size.
EarliestOfItsSize(filter, size, i) ==
    i = Min({j \in RuleCandidates(filter, size, i) : FileSize(j) = FileSize(i)})

\* C33: under every rule of the size-resolution procedure, when several
\* candidates have the directory size that the rule selects, the candidate
\* earliest in the Icon's file order is returned, so that within one directory
\* PNG is preferred over SVG; this holds for rule c (smallest larger size) and
\* for rule d (largest size available) as well as for the exact match.
C33_EarliestOfSelectedSize ==
    (Called("file_for_size_filtered") /\ Unwrap(sel).out.tag = "Some")
        => EarliestOfItsSize(Unwrap(sel).filter, Unwrap(sel).size, Unwrap(sel).out.i)

\* C33 for the selections that do not end in rule d: a candidate is at least
\* as large as the requested size.
C33_ExceptLargestAvailable ==
    (Called("file_for_size_filtered") /\ Unwrap(sel).out.tag = "Some"
     /\ \E j \in Passing(Unwrap(sel).filter) : FileSize(j) >= Unwrap(sel).size)
        => EarliestOfItsSize(Unwrap(sel).filter, Unwrap(sel).size, Unwrap(sel).out.i)

\* C34: for every valid directory and every requested size the threshold test
\* computes the window bounds size - threshold and size + threshold without
\* 16-bit underflow or overflow: a selection never aborts in the test, and
\* when no candidate has the requested size and some Threshold candidate's
\* window, taken in the integers (so starting at 0 when the threshold exceeds
\* the size), contains the requested size, such a candidate is returned.
C34_WindowWithoutWrapOrAbort ==
    Called("file_for_size_filtered")
        => /\ Unwrap(sel).out.tag # "Panic"
           /\ (/\ ExactMatches(Unwrap(sel).filter, Unwrap(sel).size) = {}
               /\ ThresholdMatches(Unwrap(sel).filter, Unwrap(sel).size) # {})
                 => Unwrap(sel).out.i
                       \in ThresholdMatches(Unwrap(sel).filter, Unwrap(sel).size)

\* C34 for the Icons in which no Threshold directory has a threshold greater
\* than its size.
C34_ForThresholdsUpToSize ==
    (Called("file_for_size_filtered")
     /\ \A i \in 1..Len(icon.files) :
           icon.files[i].dir_info.size_type = "Threshold"
              => threshold(icon.files[i].dir_info) <= FileSize(i))
        => /\ Unwrap(sel).out.tag # "Panic"
           /\ (/\ ExactMatches(Unwrap(sel).filter, Unwrap(sel).size) = {}
               /\ ThresholdMatches(Unwrap(sel).filter, Unwrap(sel).size) # {})
                 => Unwrap(sel).out.i
                       \in ThresholdMatches(Unwrap(sel).filter, Unwrap(sel).size)

\* C35: in the second selection pass of file_for_size_scaled (no file has
\* the target scale, some file has scale 1) the requested size is the exact
\* integer product targetSize x targetScale: the result is the
\* size-resolution result for that product over the scale-1 files; the
\* product is not reduced modulo 2^16 and computing it does not abort.
C35_SecondPassUsesExactProduct ==
    (Called("file_for_size_scaled")
     /\ Passing(ScaleIs(Unwrap(sel).scale)) = {}
     /\ Passing(ScaleIs(1)) # {})
        => Unwrap(sel).out =
              file_for_size_filtered(icon.files, Unwrap(sel).size * Unwrap(sel).scale,
                                     ScaleIs(1), overflow_checks)

\* C35 for the products that fit in 16 bits.
C35_ForProductsInRange ==
    (Called("file_for_size_scaled")
     /\ Passing(ScaleIs(Unwrap(sel).scale)) = {}
     /\ Passing(ScaleIs(1)) # {}
     /\ Unwrap(sel).size * Unwrap(sel).scale <= U16Max)
        => Unwrap(sel).out =
              file_for_size_filtered(icon.files, Unwrap(sel).size * Unwrap(sel).scale,
                                     ScaleIs(1), overflow_checks)

(***************************************************************************)
(* Claims about the primary theme name and the setters' frames.            *)
(***************************************************************************)

\* C36: in every reachable state the current primary theme name is
\* non-empty; it starts as "hicolor" and every step that changes it is an
\* update_theme_name call whose provider returned the new name and for which
\* theme_exists held of that name under the search roots in force at the
\* call; no other operation changes it.
C36_ThemeNameWasFoundToExist ==
    /\ [](theme_name # "")
    /\ [][theme_name' # theme_name
             => /\ Exclusive
                /\ provider_theme_name(theme_name_provider).tag = "Ok"
                /\ provider_theme_name(theme_name_provider).v = theme_name'
                /\ theme_exists(world, search_paths, theme_cache, theme_name').exists
                /\ update_theme_name(world, search_paths, theme_name_provider,
                                     theme_name, theme_cache, icon_cache).result
                      = Ok(<<>>)
                /\ UNCHANGED <<search_paths, theme_name_provider,
                               fallback_theme_name>>]_vars

\* C36, its case: the primary theme name is "B", adopted by update_theme_name
\* under custom search roots, and the provider has since been set to the
\* empty name, which no update adopts.
C36_Witness ==
    /\ theme_name = "B"
    /\ search_paths # System
    /\ theme_name_provider = User("")

\* Every chain stored in the theme cache before the step is stored unaltered
\* after it.
ThemeCacheKept ==
    \A n \in ThemeNames : theme_cache[n] # None => theme_cache'[n] = theme_cache[n]

\* C37: calling set_search_paths, set_fallback_theme_name or
\* update_theme_name with a value equal to the current one leaves the whole
\* loader state unchanged, both caches included; a successful
\* update_theme_name to a different name clears the icon cache and keeps the
\* theme cache: no stored chain is removed or altered.
C37_EqualValueIsNoChange ==
    [][/\ (SetSearchPaths(search_paths) \/ SetFallbackThemeName(fallback_theme_name))
          => UNCHANGED vars
       /\ (UpdateThemeName /\ Provides(theme_name)) => UNCHANGED vars
       /\ theme_name' # theme_name
          => (icon_cache' = EmptyIconCache /\ ThemeCacheKept
              /\ theme_cache' # EmptyThemeCache)]_vars

\* C37, its case: update_theme_name has adopted "A" after lookups under
\* another theme name: the icon cache is empty, the chain of "hicolor" stored
\* before is still there, and the setters' current values differ from the
\* initial ones.
C37_Witness ==
    /\ pc = "idle"
    /\ theme_name = "A"
    /\ Provides("A")
    /\ icon_cache = EmptyIconCache
    /\ theme_cache["hicolor"] # None
    /\ theme_cache["A"] # None
    /\ search_paths = Custom(<<"r1">>)
    /\ fallback_theme_name = "B"

====
